---- MODULE Spec2Model ----
(***************************************************************************)
(* Model of the audio source tracking pipeline of pulseshitter:            *)
(* SourceSelector (src/audio/source.rs) and AudioSystem                    *)
(* (src/audio/system.rs), driven by the sink-input events of the host      *)
(* audio service, and of the ring buffer between the event thread and the  *)
(* AudioStream the voice client reads.                                     *)
(***************************************************************************)
EXTENDS Integers, Sequences, FiniteSets, TLC

\* ------------------------------------------------------------------ bounds
MaxIndex == 2        \* raw sink-input indices are 0..MaxIndex-1
MaxEvents == 2       \* events the host emits over a run
MaxQueue == 2        \* events waiting in the event channel
MaxTicks == 1        \* clock advances over a run
TickStep == 60       \* seconds per clock advance
MaxFrames == 2       \* stereo frames the ring buffer holds (SAMPLE_RATE in
                     \* the program)
MaxChunk == 12       \* bytes in the longest Audio chunk
MaxProduced == 28    \* bytes the capture stream delivers over a run
MaxBuf == 17         \* bytes in the longest buffer a reader passes to read
MaxWindow == 3       \* samples in the meter window (SAMPLE_RATE / 16 in the
                     \* program)
MaxProcessed == 5    \* calls of StereoMeter::process over a run
MaxSamples == 2      \* samples in the longest chunk the meter is fed
FullScale == 100000  \* the fixed-point value of the sample 1.0
PowScale == 50       \* the fixed-point value of the release 1.0
MaxCandidates == 3   \* strings in the metadata of one sink input

\* ------------------------------------------------------- program constants
MAX_LIFESPAN == 60
ALLOW_SPOTIFY_STREAMING == FALSE
SPOTIFY_NAME == "Spotify"
SAMPLE_IN_BYTES == 4
BUFFER_SIZE == (SAMPLE_IN_BYTES * 2) * MaxFrames

\* Jaro threshold of SourceComparison::is_similar_enough, 0.3 as a fraction
ThresholdNum == 3
ThresholdDen == 10

None == 0
NoSink == [live |-> FALSE]
Freed == [freed |-> TRUE]
NoStream == [open |-> FALSE]
DefaultStatus == "Idle"
NoDelivery == [op |-> "none", len |-> 0, n |-> 0, data |-> <<>>, flushed |-> 0,
               cleared |-> 0]

\* the threads that can wait for a mutex: audio-events, the thread of the app
\* that calls select, and the interface that polls
Threads == {"events", "app", "ui"}

\* the mutexes of AudioSystem and SourceSelector, and the buffer of the meter
Mutexes ==
    {"producer", "consumer", "stored_sources", "current_source",
     "selected_source", "stream", "meter"}

NoEvent == [operation |-> "none"]

NoLocals ==
    [event |-> NoEvent, selected_source |-> None, current_source |-> None,
     stream |-> NoStream, source |-> None, len |-> 0]

Indices == 0..(MaxIndex - 1)

\* what the host's applications present on a sink input: the application, the
\* display name its metadata yields, and the volume in percent
Profiles ==
    { [application |-> "vlc", name |-> "VLC", volume |-> 100],
      [application |-> "vlc", name |-> "VLC media", volume |-> 50],
      [application |-> "vlc", name |-> "Spotify", volume |-> 100],
      [application |-> "mpv", name |-> "VLC", volume |-> 50],
      [application |-> "mpv", name |-> "VLC media", volume |-> 100] }

\* the characters of a name, as str::chars yields them
Chars(name) ==
    CASE name = "VLC" -> <<"V", "L", "C">>
      [] name = "VLC media" -> <<"V", "L", "C", " ", "m", "e", "d", "i", "a">>
      [] name = "Spotify" -> <<"S", "p", "o", "t", "i", "f", "y">>
      [] name = "VLC 3" -> <<"V", "L", "C", " ", "3">>
      [] OTHER -> <<>>

\* str::to_uppercase on the names above
ToUppercase(name) ==
    CASE name = "VLC" -> "VLC"
      [] name = "VLC media" -> "VLC MEDIA"
      [] name = "Spotify" -> "SPOTIFY"
      [] OTHER -> name

Max(a, b) == IF a >= b THEN a ELSE b
Min(a, b) == IF a <= b THEN a ELSE b

\* ------------------------------------------------------------ strsim::jaro
\* the first unflagged position of b inside the search window of position i
\* (1-based) that holds the same character, or 0
JaroFind(a, b, i, range, bflags) ==
    LET minBound == IF (i - 1) > range THEN (i - 1) - range ELSE 0
        maxBound == Min(Len(b), (i - 1) + range + 1)
        cands == { j \in 1..Len(b) : /\ (j - 1) < maxBound
                                     /\ minBound <= (j - 1)
                                     /\ a[i] = b[j]
                                     /\ j \notin bflags }
    IN IF cands = {} THEN 0 ELSE CHOOSE j \in cands : \A k \in cands : j <= k

RECURSIVE JaroFlags(_, _, _, _, _, _)
\* the matching loop: <<a_flags, b_flags>> after positions i..Len(a)
JaroFlags(a, b, i, range, aflags, bflags) ==
    IF i > Len(a) THEN <<aflags, bflags>>
    ELSE LET j == JaroFind(a, b, i, range, bflags)
         IN IF j = 0
            THEN JaroFlags(a, b, i + 1, range, aflags, bflags)
            ELSE JaroFlags(a, b, i + 1, range, aflags \cup {i}, bflags \cup {j})

RECURSIVE Flagged(_, _, _)
\* the flagged characters of s, in order
Flagged(s, flags, i) ==
    IF i > Len(s) THEN <<>>
    ELSE IF i \in flags THEN <<s[i]>> \o Flagged(s, flags, i + 1)
    ELSE Flagged(s, flags, i + 1)

\* the Jaro score of two character sequences as a fraction <<num, den>>
Jaro(a, b) ==
    IF Len(a) = 0 /\ Len(b) = 0 THEN <<1, 1>>
    ELSE IF Len(a) = 0 \/ Len(b) = 0 THEN <<0, 1>>
    ELSE LET range == Max(Max(Len(a), Len(b)) \div 2 - 1, 0)
             flags == JaroFlags(a, b, 1, range, {}, {})
             ma == Flagged(a, flags[1], 1)
             mb == Flagged(b, flags[2], 1)
             matches == Len(ma)
             transpositions ==
                 Cardinality({ k \in 1..matches : ma[k] # mb[k] }) \div 2
         IN IF matches = 0 THEN <<0, 1>>
            ELSE << matches * matches * Len(b) + matches * matches * Len(a)
                      + (matches - transpositions) * Len(a) * Len(b),
                    3 * Len(a) * Len(b) * matches >>

\* ------------------------------------------------------------------ state
VARIABLES
    host,         \* the host audio service: raw index -> live SinkInput or NoSink
    emitted,      \* events the host has emitted since subscribe_to_events
    used,         \* how many raw indices the host has handed out so far
    events,       \* PulseClient.events: the channel of SinkInput events
    now,          \* Instant::now(), in seconds
    constructed,  \* AudioSystem::new has returned
    heap,         \* the shared state of every Source object, by identity
    stored,       \* SourceSelector.stored_sources: identities, in Vec order
    current,      \* SourceSelector.current_source: identity or None
    selected,     \* SourceSelector.selected_source: identity or None
    stream,       \* AudioSystem.stream: the open SinkInputStream or NoStream
    eventThread,  \* "running" or "panicked": the audio-events thread
    appThread,    \* "running" or "panicked": the thread calling AudioSystem::select
    last,         \* the program operation that ran last: which one, the argument
                  \* of select, whether a New was reconciled, what record did
    ring,         \* the bytes in the ring buffer, oldest first; a byte is the
                  \* serial number the capture stream gave it
    produced,     \* bytes the capture stream has delivered so far
    pushed,       \* the serial number of the last byte that entered the ring
    delivery,     \* the last call of the voice client on its AudioStream, what
                  \* it returned, and what into_input last found: the last byte
                  \* that had entered the ring, and how many bytes it cleared
    meter,        \* StereoMeter: the left and the right Meter
    processed,    \* calls of StereoMeter::process so far
    peak,         \* per channel, the value the meter last snapped up to
    naming,       \* the last conversion of a SinkInput into a Source: the
                  \* metadata, the kind and the display name
    pc,           \* per thread, the statement it executes next
    locks,        \* per mutex, the thread that holds it, or "free"
    local,        \* per thread, the local variables of the call it is in
    live,         \* capture streams that are open on the host
    meter_buffer, \* the bytes waiting for the analysis thread; a byte is its
                  \* position in the captured stream, from 0
    analysisThread, \* "running" or "panicked": the audio-analysis thread
    restoring,    \* the last call of SourceManager::restore: the stored
                  \* sources, the target and what it returned
    bot,          \* DiscordSystem.bot: the Bot in use, or None
    bots,         \* per Bot: its context, the channel it is connected to, the
                  \* events waiting in its channel, whether it was stopped
    state,        \* DiscordSystem.state, with the VoiceState of Connected
    is_streaming, \* DiscordSystem.is_streaming
    config,       \* DiscordSystem.config: screen_share_only, or None
    tasks,        \* the futures spawned on the runtime that have not run yet
    dthreads      \* the discord-events thread and the app thread inside
                  \* connect or disconnect: the next statement and the locals

vars == << host, emitted, used, events, now, constructed, heap, stored, current,
           selected, stream, eventThread, appThread, last, ring, produced,
           pushed, delivery, meter, processed, peak, naming, pc, locks, local,
           live, meter_buffer, analysisThread, restoring, bot, bots, state,
           is_streaming, config, tasks, dthreads >>

\* ------------------------------------------------------------ Source
\* impl From<SinkInput> for Source; the display name and the application of
\* the sink input are the ones its metadata yields
SourceFrom(raw, t) ==
    [ index |-> raw.index, name |-> raw.name, application |-> raw.application,
      volume |-> raw.volume, available |-> TRUE, age |-> t ]

\* Source::update that keeps the raw sink input it had
UpdateKeepingIndex(self, incoming, t) ==
    [ self EXCEPT !.age = t, !.name = incoming.name,
                  !.volume = incoming.volume, !.available = TRUE ]

\* Source::update that does not reset the age
UpdateKeepingAge(self, incoming, t) ==
    [ self EXCEPT !.name = incoming.name, !.index = incoming.index,
                  !.volume = incoming.volume, !.available = TRUE ]

\* Source::update: name, sink input and volume of the incoming source; the
\* application field is not shared and stays
Update(self, incoming, t) ==
    [ self EXCEPT !.age = t, !.name = incoming.name, !.index = incoming.index,
                  !.volume = incoming.volume, !.available = TRUE ]

\* Source::remove
Remove(self) == [ self EXCEPT !.available = FALSE ]

\* is_dead that does not look at the age
IsDeadIgnoringAge(self, t) == ~self.available

\* Source::is_dead
IsDead(self, t) == ~self.available /\ (t - self.age) >= MAX_LIFESPAN

\* Source::compare without the application check
CompareIgnoringApplication(self, rhs) ==
    LET is_same_index == self.index = rhs.index
        is_same_name == self.name = rhs.name
    IN IF is_same_index \/ is_same_name THEN [kind |-> "Exact"]
       ELSE [kind |-> "Partial", score |-> Jaro(Chars(self.name), Chars(rhs.name))]

\* Source::compare
Compare(self, rhs) ==
    LET is_same_index == self.index = rhs.index
        is_same_name == self.name = rhs.name
    IN IF is_same_index \/ is_same_name THEN [kind |-> "Exact"]
       ELSE IF self.application # rhs.application THEN [kind |-> "None"]
       ELSE [kind |-> "Partial", score |-> Jaro(Chars(self.name), Chars(rhs.name))]

\* is_similar_enough that accepts exact matches only
IsSimilarEnoughExactOnly(cmp) == cmp.kind = "Exact"

\* is_similar_enough that accepts every partial match
IsSimilarEnoughAnyPartial(cmp) == cmp.kind \in {"Exact", "Partial"}

\* SourceComparison::is_similar_enough: score > 0.3
IsSimilarEnough(cmp) ==
    CASE cmp.kind = "Partial" ->
             cmp.score[1] * ThresholdDen > ThresholdNum * cmp.score[2]
      [] cmp.kind = "Exact" -> TRUE
      [] OTHER -> FALSE

\* ---------------------------------------------------- SourceSelector reads
RECURSIVE Filter(_, _)
Filter(s, keep) ==
    IF s = <<>> THEN <<>>
    ELSE IF keep[Head(s)] THEN <<Head(s)>> \o Filter(Tail(s), keep)
    ELSE Filter(Tail(s), keep)

Range(s) == { s[k] : k \in 1..Len(s) }

\* SourceSelector::sources: the catalog without the Spotify entries
SourcesOf(h, st) ==
    Filter(st, [id \in 1..Len(h) |->
        id \in Range(st) /\
        (ALLOW_SPOTIFY_STREAMING
           \/ ToUppercase(h[id].name) # ToUppercase(SPOTIFY_NAME))])

Sources == SourcesOf(heap, stored)

\* current_source without the availability filter
CurrentSourceUnfiltered(h, cur) == cur

\* SourceSelector::current_source
CurrentSourceOf(h, cur) == IF cur # None /\ h[cur].available THEN cur ELSE None

CurrentSource == CurrentSourceOf(heap, current)

\* SourceSelector::selected_source
SelectedSource == selected

\* AudioContext::status
Status == IF stream = NoStream THEN DefaultStatus ELSE stream.status

\* ------------------------------------------------------ SourceSelector::new
\* the initial enumeration, one Source per sink input, in index order
RECURSIVE Enumerate(_, _, _)
Enumerate(h, i, t) ==
    IF i >= MaxIndex THEN <<>>
    ELSE IF h[i] = NoSink THEN Enumerate(h, i + 1, t)
    ELSE <<SourceFrom(h[i], t)>> \o Enumerate(h, i + 1, t)

\* select that leaves selected_source as it was
SelectorSelectCurrentOnly(source) == <<source, selected>>

\* ------------------------------------------------- SourceSelector::select
\* the values of <<current_source, selected_source>> after select(source)
SelectorSelect(source) ==
    IF source # None THEN <<source, source>> ELSE <<None, None>>

\* --------------------------------- SourceSelector::handle_sink_input_event
\* the first catalog entry with that raw index, or None
FindByIndex(h, st, index) ==
    LET hits == { k \in 1..Len(st) : h[st[k]].index = index }
    IN IF hits = {} THEN None ELSE st[CHOOSE k \in hits : \A m \in hits : k <= m]

\* current_sources.retain(|s| !s.is_dead())
Retain(h, st, t) ==
    Filter(st, [id \in 1..Len(h) |-> id \in Range(st) /\ ~IsDead(h[id], t)])

\* Operation::New: the selected source when it is unavailable and similar
\* enough to the new source, else None
NewAsSelected(h, sel, new_source) ==
    IF sel # None /\ ~h[sel].available
         /\ IsSimilarEnough(Compare(h[sel], new_source))
    THEN sel ELSE None

\* the heap and the catalog after the event, or a panic of one of the expects;
\* enumeration is the result of client.sink_inputs(): the live sink inputs or
\* an error
HandleSinkInputEvent(h, st, sel, index, operation, enumOk, snapshot, t) ==
    LET found == snapshot[index] # NoSink
        source == SourceFrom(snapshot[index], t)
        existing_source == FindByIndex(h, st, index)
        panic == [panic |-> TRUE, heap |-> h, stored |-> st]
    IN IF ~enumOk THEN panic
       ELSE CASE operation = "New" ->
                   IF ~found THEN panic
                   ELSE LET target == NewAsSelected(h, sel, source)
                            h2 == IF target # None
                                  THEN [h EXCEPT ![target] = Update(@, source, t)]
                                  ELSE Append(h, source)
                            st2 == IF target # None THEN st
                                   ELSE Append(st, Len(h) + 1)
                        IN [panic |-> FALSE, heap |-> h2,
                            stored |-> Retain(h2, st2, t)]
              [] operation = "Changed" ->
                   IF existing_source = None \/ ~found THEN panic
                   ELSE LET h2 == [h EXCEPT ![existing_source] =
                                                Update(@, source, t)]
                        IN [panic |-> FALSE, heap |-> h2,
                            stored |-> Retain(h2, st, t)]
              [] OTHER ->
                   IF existing_source = None THEN panic
                   ELSE LET h2 == [h EXCEPT ![existing_source] = Remove(@)]
                        IN [panic |-> FALSE, heap |-> h2,
                            stored |-> Retain(h2, st, t)]

\* ------------------------------------------------------------- AudioClient
\* PulseClient::record: a new capture stream pinned to the sink input, or an
\* error
Record(index, ok) ==
    IF ok THEN [ok |-> TRUE, stream |-> [open |-> TRUE, index |-> index,
                                         status |-> "Idle"]]
    ELSE [ok |-> FALSE]

\* refresh_stream that leaves the slot alone when there is no current source
RefreshStreamNoTeardown(old, h, cur, recordOk) ==
    LET current_source == CurrentSourceOf(h, cur)
    IN IF current_source # None
       THEN LET r == Record(h[current_source].index, recordOk)
            IN IF r.ok
               THEN [panic |-> FALSE, stream |-> r.stream, record |-> "ok"]
               ELSE [panic |-> TRUE, stream |-> old, record |-> "err"]
       ELSE [panic |-> FALSE, stream |-> old, record |-> "none"]

\* refresh_stream that opens the stream and does not store it
RefreshStreamDroppingNew(old, h, cur, recordOk) ==
    LET current_source == CurrentSourceOf(h, cur)
    IN IF current_source # None
       THEN LET r == Record(h[current_source].index, recordOk)
            IN IF r.ok
               THEN [panic |-> FALSE, stream |-> old, record |-> "ok"]
               ELSE [panic |-> TRUE, stream |-> old, record |-> "err"]
       ELSE [panic |-> FALSE, stream |-> NoStream, record |-> "none"]

\* ------------------------------------------------ AudioSystem::refresh_stream
\* the stream slot after refresh_stream, whether record was called and how it
\* ended, and whether the expect panicked
RefreshStream(old, h, cur, recordOk) ==
    LET current_source == CurrentSourceOf(h, cur)
    IN IF current_source # None
       THEN LET r == Record(h[current_source].index, recordOk)
            IN IF r.ok
               THEN [panic |-> FALSE, stream |-> r.stream, record |-> "ok"]
               ELSE [panic |-> TRUE, stream |-> old, record |-> "err"]
       ELSE [panic |-> FALSE, stream |-> NoStream, record |-> "none"]

\* an object no Source handle of the selector refers to any more is dropped
Collect(h, st, cur, sel) ==
    [id \in 1..Len(h) |->
        IF id \in Range(st) \/ id = cur \/ id = sel THEN h[id] ELSE Freed]

\* ------------------------------------------------------- the ring buffer
\* the caller buffers the voice client reads into
BufLengths == 0..MaxBuf

\* the chunks the capture stream delivers: half a frame, and the longest
ChunkLengths == {SAMPLE_IN_BYTES, MaxChunk}

PushSliceUnbounded(r, data) == r \o data

\* HeapProducer::push_slice: the bytes that fit are appended in order, the rest
\* of the slice is dropped
PushSlice(r, data) ==
    r \o SubSeq(data, 1, Min(Len(data), BUFFER_SIZE - Len(r)))

ClearNothing(r) == r

\* HeapConsumer::clear
Clear(r) == <<>>

\* Read::read_exact on the consumer: read pops the bytes the ring holds, up to
\* len of them, and fails with WouldBlock once the ring is empty and bytes are
\* still wanted; the bytes popped before the failure are gone from the ring
ReadExact(r, len) ==
    LET n == Min(len, Len(r))
    IN [ok |-> n = len,
        data |-> SubSeq(r, 1, n),
        ring |-> SubSeq(r, n + 1, Len(r))]

AudioStreamReadUnmasked(r, len) ==
    LET x == ReadExact(r, len)
    IN [ok |-> TRUE, n |-> len, data |-> x.data, ring |-> x.ring]

AudioStreamReadPropagating(r, len) ==
    LET stereo == SAMPLE_IN_BYTES * 2
        safe_length == (len \div stereo) * stereo
        x == ReadExact(r, safe_length)
    IN [ok |-> x.ok, n |-> IF x.ok THEN safe_length ELSE 0, data |-> x.data,
        ring |-> x.ring]

\* AudioStream::read: the length is masked to whole stereo frames, the result
\* of read_exact is discarded and Ok(safe_length) returned
AudioStreamRead(r, len) ==
    LET stereo == SAMPLE_IN_BYTES * 2
        safe_length == (len \div stereo) * stereo
        x == ReadExact(r, safe_length)
    IN [ok |-> TRUE, n |-> safe_length, data |-> x.data, ring |-> x.ring]

\* -------------------------------------------------------------------- Meter
\* A Sample is an f32; the model keeps it in fixed point, FullScale standing
\* for 1.0.  The window is SAMPLE_RATE / 16 samples and the release is
\* SAMPLE_RATE * 10 samples, 160 windows.
DEFAULT_WINDOW_SIZE == MaxWindow

\* in hundredths
MAX_SMOOTHING == 2

MIN_SMOOTHING == 20

SMOOTHING_BOUNDARY == 99

SMOOTHING_RELEASE == 160 * DEFAULT_WINDOW_SIZE

\* the samples a chunk is made of: silence, full scale, and half scale with
\* the opposite sign
Samples == {0, FullScale, 0 - (FullScale \div 2)}

Silent(buf) == \A k \in 1..Len(buf) : buf[k] = 0

Abs(x) == IF x < 0 THEN 0 - x ELSE x

faster_max(a, b) == IF a > b THEN a ELSE b

RECURSIVE Fold(_, _)
\* buffer.iter().fold(0f32, |acc, x| faster_max(acc, x.abs()))
Fold(acc, buffer) ==
    IF buffer = <<>> THEN acc
    ELSE Fold(faster_max(acc, Abs(Head(buffer))), Tail(buffer))

\* x.powf(0.8) for x in 0..1, x and the result in units of 1/PowScale: the
\* largest r with r^5 <= x^4 (both sides brought to the same scale)
Powf08(x) ==
    CHOOSE r \in 0..PowScale :
        /\ r * r * r * r * r <= x * x * x * x * PowScale
        /\ \A q \in (r + 1)..PowScale :
               q * q * q * q * q > x * x * x * x * PowScale

\* Meter::new
MeterNew ==
    [window_size |-> DEFAULT_WINDOW_SIZE, current_value |-> 0,
     samples_since_last_peak |-> 0, buffer |-> <<>>]

\* the smoothing factor of the decay branch, in units of 1/10000
Smoothing(samples_since_last_peak) ==
    LET release ==
            Powf08(Max(PowScale - (samples_since_last_peak * PowScale)
                                      \div SMOOTHING_RELEASE, 0))
        max_smoothing ==
            (100 - MAX_SMOOTHING) * 100 + MAX_SMOOTHING * SMOOTHING_BOUNDARY
        min_smoothing ==
            (100 - MIN_SMOOTHING) * 100 + MIN_SMOOTHING * SMOOTHING_BOUNDARY
    IN min_smoothing + ((max_smoothing - min_smoothing) * release) \div PowScale

\* current_value * smoothing
Decay(current_value, smoothing) == (current_value * smoothing) \div 10000

\* process_multiversioned
MeterProcess(m, buf) ==
    LET extended == m.buffer \o buf
        overflow == Max(Len(extended) - m.window_size, 0)
        buffer == SubSeq(extended, overflow + 1, Len(extended))
        max_value == Fold(0, buffer)
    IN IF max_value > m.current_value
       THEN [m EXCEPT !.buffer = buffer, !.current_value = max_value,
                      !.samples_since_last_peak = 0]
       ELSE [m EXCEPT !.buffer = buffer,
                      !.current_value =
                          Decay(m.current_value,
                                Smoothing(m.samples_since_last_peak)),
                      !.samples_since_last_peak = @ + Len(buf)]

\* buf.iter().skip(skip).step_by(2)
StepBy2(buf, skip) ==
    [k \in 1..((Len(buf) - skip + 1) \div 2) |-> buf[2 * k - 1 + skip]]

\* StereoMeter::new
StereoMeterNew == [left |-> MeterNew, right |-> MeterNew]

\* StereoMeter::process
StereoMeterProcess(sm, buf) ==
    [left |-> MeterProcess(sm.left, StepBy2(buf, 0)),
     right |-> MeterProcess(sm.right, StepBy2(buf, 1))]


\* ------------------------------------------------------------ display name
\* A string is the sequence of its characters.
Lowercase ==
    <<"a", "b", "c", "d", "e", "f", "g", "h", "i", "j", "k", "l", "m", "n", "o",
      "p", "q", "r", "s", "t", "u", "v", "w", "x", "y", "z">>

Uppercase ==
    <<"A", "B", "C", "D", "E", "F", "G", "H", "I", "J", "K", "L", "M", "N", "O",
      "P", "Q", "R", "S", "T", "U", "V", "W", "X", "Y", "Z">>

IsLowercase(c) == \E k \in 1..Len(Lowercase) : Lowercase[k] = c

IsUppercase(c) == \E k \in 1..Len(Uppercase) : Uppercase[k] = c

\* str::to_uppercase
ToUpper(str) ==
    [k \in 1..Len(str) |->
        IF IsLowercase(str[k])
        THEN Uppercase[CHOOSE n \in 1..Len(Lowercase) : Lowercase[n] = str[k]]
        ELSE str[k]]

VAGUE_WORDS ==
    { <<"p", "l", "a", "y">>,
      <<"a", "u", "d", "i", "o">>,
      <<"v", "o", "i", "c", "e">>,
      <<"s", "t", "r", "e", "a", "m">>,
      <<"d", "r", "i", "v", "e", "r">>,
      <<"w", "e", "b", "r", "t", "c">>,
      <<"e", "n", "g", "i", "n", "e">>,
      <<"p", "l", "a", "y", "b", "a", "c", "k">>,
      <<"c", "a", "l", "l", "b", "a", "c", "k">>,
      <<"a", "l", "s", "a">> }

FIREFOX == <<"F", "i", "r", "e", "f", "o", "x">>

CHROME == <<"C", "h", "r", "o", "m", "e">>

\* the character classes of WORD_SPLIT_REGEX:
\* ([^.,\-_\sA-Z]+)|([^.,\-_\sa-z][^.\sA-Z]+)
WordChar(c) == c \notin {".", ",", "-", "_", " "} /\ ~IsUppercase(c)

WordStart(c) == c \notin {".", ",", "-", "_", " "} /\ ~IsLowercase(c)

WordRest(c) == c \notin {".", " "} /\ ~IsUppercase(c)

\* the end of the longest run of characters of a class that starts at i
RunEnd(str, i, Class(_)) ==
    CHOOSE e \in (i - 1)..Len(str) :
        /\ \A k \in i..e : Class(str[k])
        /\ e = Len(str) \/ ~Class(str[e + 1])

RECURSIVE FindIter(_, _)
\* WORD_SPLIT_REGEX.find_iter(str) from position i on: the leftmost match,
\* the first alternative before the second, each as long as it can be
FindIter(str, i) ==
    IF i > Len(str) THEN <<>>
    ELSE IF WordChar(str[i])
    THEN LET e == RunEnd(str, i, WordChar)
         IN <<SubSeq(str, i, e)>> \o FindIter(str, e + 1)
    ELSE IF WordStart(str[i]) /\ i < Len(str) /\ WordRest(str[i + 1])
    THEN LET e == RunEnd(str, i + 1, WordRest)
         IN <<SubSeq(str, i, e)>> \o FindIter(str, e + 1)
    ELSE FindIter(str, i + 1)

str_is_doublecase(str) ==
    Cardinality({ k \in 1..Len(str) : IsLowercase(str[k]) }) < Len(str)

IsVague(w) == \E word \in VAGUE_WORDS : ToUpper(w) = ToUpper(word)

RECURSIVE FoldWords(_, _)
FoldWords(acc, words) ==
    IF words = <<>> THEN acc
    ELSE FoldWords(IF IsVague(Head(words)) THEN acc - 1 ELSE acc + 1,
                   Tail(words))

calculate_name_quality(str) ==
    (IF str_is_doublecase(str) THEN 1 ELSE 0) + FoldWords(0, FindIter(str, 1))

\* the candidates with a score above 1
FilterMap(candidates) ==
    Filter(candidates,
           [c \in Range(candidates) |-> calculate_name_quality(c) > 1])

RECURSIVE InsertByScore(_, _)
\* c goes behind every candidate that scores at least as much
InsertByScore(sorted, c) ==
    IF sorted = <<>> THEN <<c>>
    ELSE IF calculate_name_quality(Head(sorted)) >= calculate_name_quality(c)
    THEN <<Head(sorted)>> \o InsertByScore(Tail(sorted), c)
    ELSE <<c>> \o sorted

RECURSIVE InsertByScoreAscending(_, _)
\* a sort that puts the lowest score first
InsertByScoreAscending(sorted, c) ==
    IF sorted = <<>> THEN <<c>>
    ELSE IF calculate_name_quality(Head(sorted)) <= calculate_name_quality(c)
    THEN <<Head(sorted)>> \o InsertByScoreAscending(Tail(sorted), c)
    ELSE <<c>> \o sorted

RECURSIVE SortByScoreFrom(_, _)
SortByScoreFrom(sorted, candidates) ==
    IF candidates = <<>> THEN sorted
    ELSE SortByScoreFrom(InsertByScore(sorted, Head(candidates)),
                         Tail(candidates))

RECURSIVE SortByScoreAscendingFrom(_, _)
SortByScoreAscendingFrom(sorted, candidates) ==
    IF candidates = <<>> THEN sorted
    ELSE SortByScoreAscendingFrom(
             InsertByScoreAscending(sorted, Head(candidates)),
             Tail(candidates))

\* a sort that puts the lowest score first
SortByScoreAscending(candidates) == SortByScoreAscendingFrom(<<>>, candidates)

\* name_candidates.sort_by(|(_, a), (_, b)| b.cmp(a)): stable, highest first
SortByScore(candidates) == SortByScoreFrom(<<>>, candidates)

\* BrowserKind::parse
BrowserKindParse(name) ==
    CASE ToUpper(name) = ToUpper(FIREFOX) -> "Firefox"
      [] ToUpper(name) = ToUpper(CHROME) -> "Chrome"
      [] OTHER -> "None"

\* impl Display for BrowserKind
BrowserKindToString(b) == IF b = "Firefox" THEN FIREFOX ELSE CHROME

\* SourceKind::parse
SourceKindParse(candidates) ==
    LET found == { k \in 1..Len(candidates) :
                       BrowserKindParse(candidates[k]) # "None" }
    IN IF found = {} THEN "Standalone"
       ELSE BrowserKindParse(
                candidates[CHOOSE k \in found : \A j \in found : k <= j])

\* BrowserKind::determine_tab_name
DetermineTabName(b, candidates) ==
    LET browser_name == BrowserKindToString(b)
        found == { k \in 1..Len(candidates) :
                       ToUpper(candidates[k]) # ToUpper(browser_name) }
    IN IF found = {}
       THEN <<"Unidentifiable ">> \o browser_name \o <<" Tab">>
       ELSE candidates[CHOOSE k \in found : \A j \in found : k <= j]

\* SourceKind::determine_name
DetermineName(kind, candidates) ==
    IF kind = "Standalone"
    THEN IF candidates = <<>> THEN <<"Unidentifiable audio source">>
         ELSE Head(candidates)
    ELSE DetermineTabName(kind, candidates)

\* impl From<SinkInput> for Source: the kind and the display name
NameFrom(metadata) ==
    LET name_candidates == SortByScore(FilterMap(metadata))
        kind == SourceKindParse(name_candidates)
    IN [kind |-> kind, name |-> DetermineName(kind, name_candidates)]

\* the strings the metadata of a sink input holds
PlayStream == <<"p", "l", "a", "y", "S", "t", "r", "e", "a", "m">>

MyCoolSong == <<"M", "y", " ", "C", "o", "o", "l", " ", "S", "o", "n", "g">>

CoolSong == <<"C", "o", "o", "l", " ", "S", "o", "n", "g">>

Vlc == <<"v", "l", "c">>

AlsaPlayback == <<"A", "L", "S", "A", " ", "P", "l", "a", "y", "b", "a", "c", "k">>

LowerChrome == <<"c", "h", "r", "o", "m", "e">>

Names == { PlayStream, FIREFOX, MyCoolSong, CoolSong, Vlc, AlsaPlayback, LowerChrome }

\* raw.name and the properties that are present, in the order of the code
Metadata == UNION { [1..n -> Names] : n \in 1..MaxCandidates }

NoName == [op |-> "none"]


\* ------------------------------------------------ the state added later
MaxBots == 2         \* Bots created over a run

MaxGateway == 1      \* voice state updates of the target user over a run

Bots == 1..MaxBots

\* a Bot that is not created yet.  context is the Option the ready handler
\* fills, connected_to_channel the Option of the channel the bot has joined,
\* queue the unbounded channel of its events
NoBot == [client |-> "none", context |-> FALSE, connected_to_channel |-> FALSE,
          queue |-> <<>>, gateway |-> 0]

NoBotEvent == [kind |-> "none", arg |-> FALSE]

NoRestore == [op |-> "none"]

\* the Option of the ReadOnlyConfig: none, or a config by its screen_share_only
NoConfig == "none"

Configs == { "screen_share_only", "stream always" }

\* State::Idle; the voice state is a field of State::Connected only
StateIdle == [kind |-> "Idle", voice |-> "Idle"]

\* DiscordSystem::new and the analysis thread before its first tick.  The
\* discord-events thread is at the head of its loop, the app thread handles
\* no action
DiscordInit ==
    /\ meter_buffer = <<>>
    /\ analysisThread = "running"
    /\ bot = None
    /\ bots = [b \in Bots |-> NoBot]
    /\ state = StateIdle
    /\ is_streaming = FALSE
    /\ config = NoConfig
    /\ tasks = <<>>
    /\ dthreads = [events |-> [pc |-> "loop", bot |-> None,
                               event |-> NoBotEvent],
                   app |-> [pc |-> "idle", bot |-> None]]

\* the same, and no call of restore yet
ExtInit ==
    /\ DiscordInit
    /\ restoring = NoRestore

\* ----------------------------------------------------------------- Init
\* AudioSystem::new has subscribed to the host's events; the selector is not
\* built yet.  The host already runs an application.
Init ==
    /\ host = [i \in Indices |-> IF i = 0
                   THEN [index |-> 0, name |-> "VLC", application |-> "vlc",
                         volume |-> 100]
                   ELSE NoSink]
    /\ emitted = 0
    /\ used = 1
    /\ events = <<>>
    /\ now = 0
    /\ constructed = FALSE
    /\ heap = <<>>
    /\ stored = <<>>
    /\ current = None
    /\ selected = None
    /\ stream = NoStream
    /\ eventThread = "running"
    /\ appThread = "running"
    /\ last = [op |-> "none", arg |-> None, reconciled |-> FALSE,
               record |-> "none"]
    /\ ring = <<>>
    /\ produced = 0
    /\ pushed = 0
    /\ delivery = NoDelivery
    /\ meter = StereoMeterNew
    /\ processed = 0
    /\ peak = [left |-> 0, right |-> 0]
    /\ naming = NoName
    /\ pc = [t \in Threads |-> IF t = "events" THEN "spawn" ELSE "idle"]
    /\ locks = [m \in Mutexes |-> "free"]
    /\ local = [t \in Threads |-> NoLocals]
    /\ live = 0
    /\ ExtInit

selectorVars == << heap, stored, current, selected, stream, eventThread,
                   appThread, last, constructed >>

audioVars == << ring, produced, pushed, delivery >>

meterVars == << meter, processed, peak >>

analysisVars == << meter_buffer, analysisThread >>

discordVars == << bot, bots, state, is_streaming, config, tasks, dthreads >>

\* the state of the analysis thread, of the earlier SourceManager and of the
\* DiscordSystem
extVars == << analysisVars, restoring, discordVars >>

\* the state outside the selector and the ring buffer
auxVars == << meterVars, naming, pc, locks, local, live, extVars >>

\* ------------------------------------------------------- the host service
\* the model follows a run up to its first panic
Running == eventThread = "running" /\ appThread = "running"

\* an application opens a sink input; the subscription delivers New.  The host
\* hands out a raw index that is free: one it used before, or the next one
HostCreate(i, p) ==
    /\ Running
    /\ host[i] = NoSink
    /\ i <= used
    /\ used' = IF i = used THEN used + 1 ELSE used
    /\ emitted < MaxEvents
    /\ Len(events) < MaxQueue
    /\ host' = [host EXCEPT ![i] = [index |-> i, name |-> p.name,
                                    application |-> p.application,
                                    volume |-> p.volume]]
    /\ emitted' = emitted + 1
    /\ events' = Append(events, [index |-> i, operation |-> "New"])
    /\ UNCHANGED << now, selectorVars, audioVars,
                    auxVars >>

\* a sink input changes its media name or its volume; the subscription
\* delivers Changed
HostChange(i, p) ==
    /\ Running
    /\ host[i] # NoSink
    /\ p.application = host[i].application
    /\ <<p.name, p.volume>> # <<host[i].name, host[i].volume>>
    /\ emitted < MaxEvents
    /\ Len(events) < MaxQueue
    /\ emitted' = emitted + 1
    /\ host' = [host EXCEPT ![i].name = p.name, ![i].volume = p.volume]
    /\ events' = Append(events, [index |-> i, operation |-> "Changed"])
    /\ UNCHANGED << used, now, selectorVars, audioVars,
                    auxVars >>

\* a sink input goes away; the subscription delivers Removed
HostRemove(i) ==
    /\ Running
    /\ host[i] # NoSink
    /\ emitted < MaxEvents
    /\ Len(events) < MaxQueue
    /\ emitted' = emitted + 1
    /\ host' = [host EXCEPT ![i] = NoSink]
    /\ events' = Append(events, [index |-> i, operation |-> "Removed"])
    /\ UNCHANGED << used, now, selectorVars, audioVars,
                    auxVars >>

\* time passes
Tick ==
    /\ Running
    /\ now + TickStep <= MaxTicks * TickStep
    /\ now' = now + TickStep
    /\ UNCHANGED << host, emitted, used, events, selectorVars, audioVars,
                    auxVars >>

\* ------------------------------------------------------- SourceSelector::new
\* the initial enumeration fills the catalog; the event thread starts
Construct ==
    /\ Running
    /\ ~constructed
    /\ constructed' = TRUE
    /\ heap' = Enumerate(host, 0, now)
    /\ stored' = [k \in 1..Len(heap') |-> k]
    /\ UNCHANGED << host, emitted, used, events, now, current, selected, stream,
                    eventThread, appThread, last, audioVars,
                    auxVars >>

\* ------------------------------------------------------ AudioSystem::select
\* select(source) on the app thread: the selector takes the source, then the
\* stream is refreshed
Select(source, recordOk) ==
    /\ Running
    /\ constructed
    /\ LET sel == SelectorSelect(source)
           r == RefreshStream(stream, heap, sel[1], recordOk)
       IN /\ current' = sel[1]
          /\ selected' = sel[2]
          /\ heap' = Collect(heap, stored, sel[1], sel[2])
          /\ stream' = r.stream
          /\ appThread' = IF r.panic THEN "panicked" ELSE "running"
          /\ last' = [op |-> "select", arg |-> source, reconciled |-> FALSE,
                      record |-> r.record]
    /\ UNCHANGED << host, emitted, used, events, now, constructed, stored,
                    eventThread, audioVars,
                    auxVars >>

\* ---------------------------------------------------- spawn_event_thread
\* one iteration of the event loop for a SinkInput event: the selector handles
\* it, then the stream is refreshed
HandleEvent(enumOk, recordOk) ==
    /\ Running
    /\ constructed
    /\ events # <<>>
    /\ Head(events).operation # "Audio"
    /\ LET e == Head(events)
           s == HandleSinkInputEvent(heap, stored, selected, e.index,
                                     e.operation, enumOk, host, now)
           r == IF s.panic
                THEN [panic |-> TRUE, stream |-> stream, record |-> "none"]
                ELSE RefreshStream(stream, s.heap, current, recordOk)
       IN /\ events' = Tail(events)
          /\ heap' = Collect(s.heap, s.stored, current, selected)
          /\ stored' = s.stored
          /\ stream' = r.stream
          /\ eventThread' = IF r.panic THEN "panicked" ELSE "running"
          /\ last' = [op |-> e.operation,
                      arg |-> None,
                      reconciled |-> /\ ~s.panic
                                     /\ e.operation = "New"
                                     /\ Len(s.heap) = Len(heap),
                      record |-> r.record]
    /\ UNCHANGED << host, emitted, used, now, constructed, current, selected,
                    appThread, audioVars,
                    auxVars >>

\* the read callback of the open capture stream forwards a chunk of bytes as
\* an Audio event
StreamAudio(len) ==
    /\ Running
    /\ constructed
    /\ stream # NoStream
    /\ produced + len <= MaxProduced
    /\ Len(events) < MaxQueue
    /\ produced' = produced + len
    /\ events' = Append(events, [operation |-> "Audio",
                                 data |-> [k \in 1..len |-> produced + k]])
    /\ UNCHANGED << host, emitted, used, now, selectorVars, ring, pushed,
                    delivery,
                    auxVars >>

\* one iteration of the event loop for an Audio event: the chunk is pushed
\* into the ring buffer
HandleAudio ==
    /\ Running
    /\ constructed
    /\ events # <<>>
    /\ Head(events).operation = "Audio"
    /\ events' = Tail(events)
    /\ ring' = PushSlice(ring, Head(events).data)
    /\ pushed' = IF Len(ring') > Len(ring) THEN ring'[Len(ring')] ELSE pushed
    /\ last' = [op |-> "Audio", arg |-> None, reconciled |-> FALSE,
                record |-> "none"]
    /\ UNCHANGED << host, emitted, used, now, constructed, heap, stored, current,
                    selected, stream, eventThread, appThread, produced,
                    delivery,
                    auxVars >>

\* -------------------------------------------------------------- AudioStream
\* AudioStream::into_input: the voice client starts delivery; the ring buffer
\* is cleared
IntoInput ==
    /\ Running
    /\ constructed
    /\ ring' = Clear(ring)
    /\ delivery' = [op |-> "into_input", len |-> 0, n |-> 0, data |-> <<>>,
                    flushed |-> pushed, cleared |-> Len(ring)]
    /\ UNCHANGED << host, emitted, used, events, now, selectorVars, produced,
                    pushed,
                    auxVars >>

\* AudioStream::read, called by the voice client on the Input it was given
Read(len) ==
    /\ Running
    /\ constructed
    /\ delivery.op # "none"
    /\ LET r == AudioStreamRead(ring, len)
       IN /\ ring' = r.ring
          /\ delivery' = [op |-> IF r.ok THEN "read" ELSE "read failed",
                          len |-> len, n |-> r.n, data |-> r.data,
                          flushed |-> delivery.flushed,
                          cleared |-> delivery.cleared]
    /\ UNCHANGED << host, emitted, used, events, now, selectorVars, produced,
                    pushed,
                    auxVars >>

Next ==
    \/ \E i \in Indices, p \in Profiles : HostCreate(i, p)
    \/ \E i \in Indices, p \in Profiles : HostChange(i, p)
    \/ \E i \in Indices : HostRemove(i)
    \/ Tick
    \/ Construct
    \/ \E source \in {None} \cup Range(Sources), recordOk \in BOOLEAN :
           Select(source, recordOk)
    \/ \E enumOk \in BOOLEAN, recordOk \in BOOLEAN : HandleEvent(enumOk, recordOk)

Spec == Init /\ [][Next]_vars

\* the capture path of one application: the selector is built, the user
\* selects and stops, the application goes away, the capture stream delivers
\* chunks and the voice client reads
AudioNext ==
    \/ Construct
    \/ \E source \in {None} \cup Range(Sources), recordOk \in BOOLEAN :
           Select(source, recordOk)
    \/ \E i \in Indices : HostRemove(i)
    \/ \E enumOk \in BOOLEAN, recordOk \in BOOLEAN : HandleEvent(enumOk, recordOk)
    \/ \E len \in ChunkLengths : StreamAudio(len)
    \/ HandleAudio
    \/ IntoInput
    \/ \E len \in BufLengths : Read(len)

AudioSpec == Init /\ [][AudioNext]_vars

\* the capture path when the capture stream delivers whole stereo frames only
FrameChunkLengths == { (SAMPLE_IN_BYTES * 2) * k : k \in 1..MaxFrames }

FramedNext ==
    \/ Construct
    \/ \E source \in {None} \cup Range(Sources), recordOk \in BOOLEAN :
           Select(source, recordOk)
    \/ \E len \in FrameChunkLengths : StreamAudio(len)
    \/ HandleAudio
    \/ IntoInput
    \/ \E len \in BufLengths : Read(len)

FramedSpec == Init /\ [][FramedNext]_vars

\* two applications run when the system starts and no other one is started:
\* they change, they go away, time passes
SteadyInit ==
    /\ host = [i \in Indices |->
                 CASE i = 0 -> [index |-> 0, name |-> "VLC",
                                application |-> "vlc", volume |-> 100]
                   [] i = 1 -> [index |-> 1, name |-> "VLC media",
                                application |-> "mpv", volume |-> 100]
                   [] OTHER -> NoSink]
    /\ emitted = 0
    /\ used = 2
    /\ events = <<>>
    /\ now = 0
    /\ constructed = FALSE
    /\ heap = <<>>
    /\ stored = <<>>
    /\ current = None
    /\ selected = None
    /\ stream = NoStream
    /\ eventThread = "running"
    /\ appThread = "running"
    /\ last = [op |-> "none", arg |-> None, reconciled |-> FALSE,
               record |-> "none"]
    /\ ring = <<>>
    /\ produced = 0
    /\ pushed = 0
    /\ delivery = NoDelivery
    /\ meter = StereoMeterNew
    /\ processed = 0
    /\ peak = [left |-> 0, right |-> 0]
    /\ naming = NoName
    /\ pc = [t \in Threads |-> IF t = "events" THEN "spawn" ELSE "idle"]
    /\ locks = [m \in Mutexes |-> "free"]
    /\ local = [t \in Threads |-> NoLocals]
    /\ live = 0
    /\ ExtInit

SteadyNext ==
    \/ \E i \in Indices, p \in Profiles : HostChange(i, p)
    \/ \E i \in Indices : HostRemove(i)
    \/ Tick
    \/ Construct
    \/ \E source \in {None} \cup Range(Sources), recordOk \in BOOLEAN :
           Select(source, recordOk)
    \/ \E enumOk \in BOOLEAN, recordOk \in BOOLEAN : HandleEvent(enumOk, recordOk)

SteadySpec == SteadyInit /\ [][SteadyNext]_vars

\* ------------------------------------------------ the dashboard source list
\* SourceSelector::select of the dashboard, on Enter: the hovered entry of the
\* listed sources is compared by index with the source that is captured, 0
\* standing in when none is, and StopStream or SetAudioSource is dispatched;
\* nothing is dispatched when the list has no such entry.  The app thread
\* handles the action: audio.select(None) or audio.select(Some(source))
DashboardSelect(selected_index, recordOk) ==
    /\ selected_index < Len(Sources)
    /\ LET source == Sources[selected_index + 1]
           selected_app_index == IF CurrentSource # None
                                 THEN heap[CurrentSource].index
                                 ELSE 0
       IN IF heap[source].index = selected_app_index
          THEN Select(None, recordOk)
          ELSE Select(source, recordOk)

\* the program driven from the dashboard
DashboardNext ==
    \/ \E i \in Indices, p \in Profiles : HostCreate(i, p)
    \/ \E i \in Indices, p \in Profiles : HostChange(i, p)
    \/ \E i \in Indices : HostRemove(i)
    \/ Tick
    \/ Construct
    \/ \E selected_index \in Indices, recordOk \in BOOLEAN :
           DashboardSelect(selected_index, recordOk)
    \/ \E enumOk \in BOOLEAN, recordOk \in BOOLEAN : HandleEvent(enumOk, recordOk)

DashboardSpec == Init /\ [][DashboardNext]_vars

\* ------------------------------------------------------- SinkInputStream
\* the statuses of a capture stream
Statuses ==
    {"Idle", "Connecting", "Connected", "Suspended", "Terminated",
     "Failed(Timeout)", "Failed(Other)"}

Terminal == {"Terminated", "Failed(Timeout)", "Failed(Other)"}

\* status callbacks that let a failed stream connect again
StatusStepRetrying(from, to) ==
    \/ from = "Idle" /\ to = "Connecting"
    \/ from = "Connecting" /\ to = "Connected"
    \/ from = "Connected" /\ to = "Suspended"
    \/ from = "Suspended" /\ to = "Connected"
    \/ from \in {"Connecting", "Connected", "Suspended"} /\ to \in Terminal
    \/ from \in Terminal /\ to = "Connecting"

\* the status callbacks of the host: a stream connects, is suspended and
\* resumed by its device, and ends terminated or failed
StatusStep(from, to) ==
    \/ from = "Idle" /\ to = "Connecting"
    \/ from = "Connecting" /\ to = "Connected"
    \/ from = "Connected" /\ to = "Suspended"
    \/ from = "Suspended" /\ to = "Connected"
    \/ from \in {"Connecting", "Connected", "Suspended"} /\ to \in Terminal

\* the host reports a new status of the open capture stream
StreamStatus(status) ==
    /\ Running
    /\ constructed
    /\ stream # NoStream
    /\ StatusStep(stream.status, status)
    /\ stream' = [stream EXCEPT !.status = status]
    /\ last' = [op |-> "status", arg |-> None, reconciled |-> FALSE,
                record |-> "none"]
    /\ UNCHANGED << host, emitted, used, events, now, constructed, heap, stored,
                    current, selected, eventThread, appThread, audioVars,
                    auxVars >>

\* the capture stream of one application: the selector is built, the user
\* selects and stops, the application goes away, the host reports the status
\* of the stream
StreamNext ==
    \/ Construct
    \/ \E source \in {None} \cup Range(Sources), recordOk \in BOOLEAN :
           Select(source, recordOk)
    \/ \E i \in Indices, p \in Profiles : HostChange(i, p)
    \/ \E i \in Indices : HostRemove(i)
    \/ \E enumOk \in BOOLEAN, recordOk \in BOOLEAN : HandleEvent(enumOk, recordOk)
    \/ \E status \in Statuses : StreamStatus(status)

StreamSpec == Init /\ [][StreamNext]_vars

\* ------------------------------------------------------------------ the meter
\* the meter is fed a chunk of interleaved samples
Process(buf) ==
    /\ processed < MaxProcessed
    /\ processed' = processed + 1
    /\ meter' = StereoMeterProcess(meter, buf)
    /\ peak' = [c \in {"left", "right"} |->
                   IF meter'[c].current_value > meter[c].current_value
                   THEN meter'[c].current_value ELSE peak[c]]
    /\ UNCHANGED << host, emitted, used, events, now, selectorVars, audioVars,
                    naming, pc, locks, local, live, extVars >>

Chunks == UNION { [1..n -> Samples] : n \in 1..MaxSamples }

MeterNext == \E buf \in Chunks : Process(buf)

MeterSpec == Init /\ [][MeterNext]_vars

\* ----------------------------------------------------------- the conversion
\* a sink input whose metadata holds those strings is about to be converted
NameInit ==
    /\ host = [i \in Indices |-> IF i = 0
                   THEN [index |-> 0, name |-> "VLC", application |-> "vlc",
                         volume |-> 100]
                   ELSE NoSink]
    /\ emitted = 0
    /\ used = 1
    /\ events = <<>>
    /\ now = 0
    /\ constructed = FALSE
    /\ heap = <<>>
    /\ stored = <<>>
    /\ current = None
    /\ selected = None
    /\ stream = NoStream
    /\ eventThread = "running"
    /\ appThread = "running"
    /\ last = [op |-> "none", arg |-> None, reconciled |-> FALSE,
               record |-> "none"]
    /\ ring = <<>>
    /\ produced = 0
    /\ pushed = 0
    /\ delivery = NoDelivery
    /\ meter = StereoMeterNew
    /\ processed = 0
    /\ peak = [left |-> 0, right |-> 0]
    /\ naming \in { [op |-> "metadata", metadata |-> m] : m \in Metadata }
    /\ pc = [t \in Threads |-> IF t = "events" THEN "spawn" ELSE "idle"]
    /\ locks = [m \in Mutexes |-> "free"]
    /\ local = [t \in Threads |-> NoLocals]
    /\ live = 0
    /\ ExtInit

\* the SinkInput is converted into a Source
From ==
    /\ naming.op = "metadata"
    /\ naming' = [op |-> "from", metadata |-> naming.metadata,
                  kind |-> NameFrom(naming.metadata).kind,
                  name |-> NameFrom(naming.metadata).name]
    /\ UNCHANGED << host, emitted, used, events, now, selectorVars, audioVars,
                    meterVars, pc, locks, local, live, extVars >>

NameNext == From

NameSpec == NameInit /\ [][NameNext]_vars

\* ------------------------------------------------- SourceManager::restore
MaxRestored == 2     \* sources the SourceManager holds when restore is called

\* the names of the sources restore is called with
RestoreNames == { "VLC", "VLC media", "VLC 3", "Spotify" }

\* a Source of the SourceManager: the index of its sink input, its name, its
\* kind and whether it is available
RestoreSources ==
    [input_index : 0..MaxRestored, name : RestoreNames,
     kind : { "Standalone", "BrowserTab" }, available : BOOLEAN]

\* the sources of the SourceManager: update() leaves no two of them with the
\* same index or the same name
RestoreStored ==
    { ss \in UNION { [1..n -> RestoreSources] : n \in 1..MaxRestored } :
        \A j, k \in 1..Len(ss) :
            j # k => /\ ss[j].input_index # ss[k].input_index
                     /\ ss[j].name # ss[k].name }

\* fractions <<num, den>> with a positive den
Greater(x, y) == x[1] * y[2] > y[1] * x[2]

MINIMUM_RESTORE_SCORE == <<1, 2>>

\* Source::compare
SourceCompare(self, rhs) ==
    IF self.input_index = rhs.input_index \/ self.name = rhs.name
    THEN [kind |-> "Exact"]
    ELSE IF self.kind # rhs.kind THEN [kind |-> "None"]
    ELSE LET score == Jaro(Chars(self.name), Chars(rhs.name))
         IN IF Greater(score, <<1, 2>>)
            THEN [kind |-> "Partial", score |-> score]
            ELSE [kind |-> "None"]

\* SourceComparison::score; f64::MAX is above every Jaro score, which is at
\* most 1
Score(comparison) ==
    CASE comparison.kind = "Exact" -> <<2, 1>>
      [] comparison.kind = "Partial" -> comparison.score
      [] comparison.kind = "None" -> <<0, 1>>

\* the candidates of restore: the positions of the available sources
Candidates(sources) == { k \in 1..Len(sources) : sources[k].available }

\* candidates.sort_by with a comparator that answers Greater for a > b and
\* Less otherwise: the lowest score comes first.  For equal scores it answers
\* Less both ways, which is no total order, and their order is not specified
SortedCandidates(sources, target) ==
    LET cands == Candidates(sources)
        n == Cardinality(cands)
        score(k) == Score(SourceCompare(sources[k], target))
    IN { order \in [1..n -> cands] :
           /\ \A j, k \in 1..n : j # k => order[j] # order[k]
           /\ \A j, k \in 1..n :
                 j < k => ~Greater(score(order[j]), score(order[k])) }

\* find_map: the first candidate of the order above the minimum, or None
FindMap(sources, target, order) ==
    LET above == { j \in 1..Len(order) :
                       /\ Greater(Score(SourceCompare(sources[order[j]], target)),
                                  MINIMUM_RESTORE_SCORE)
                       /\ sources[order[j]].available }
    IN IF above = {} THEN None
       ELSE order[CHOOSE j \in above : \A k \in above : j <= k]

\* SourceManager::restore: the positions it can return, None for no source
Restored(sources, target) ==
    { FindMap(sources, target, order) :
          order \in SortedCandidates(sources, target) }

\* the SourceManager holds those sources and restore is about to be called
\* with a selected source that is not available
RestoreInit ==
    /\ host = [i \in Indices |-> IF i = 0
                   THEN [index |-> 0, name |-> "VLC", application |-> "vlc",
                         volume |-> 100]
                   ELSE NoSink]
    /\ emitted = 0
    /\ used = 1
    /\ events = <<>>
    /\ now = 0
    /\ constructed = FALSE
    /\ heap = <<>>
    /\ stored = <<>>
    /\ current = None
    /\ selected = None
    /\ stream = NoStream
    /\ eventThread = "running"
    /\ appThread = "running"
    /\ last = [op |-> "none", arg |-> None, reconciled |-> FALSE,
               record |-> "none"]
    /\ ring = <<>>
    /\ produced = 0
    /\ pushed = 0
    /\ delivery = NoDelivery
    /\ meter = StereoMeterNew
    /\ processed = 0
    /\ peak = [left |-> 0, right |-> 0]
    /\ naming = NoName
    /\ pc = [t \in Threads |-> IF t = "events" THEN "spawn" ELSE "idle"]
    /\ locks = [m \in Mutexes |-> "free"]
    /\ local = [t \in Threads |-> NoLocals]
    /\ live = 0
    /\ DiscordInit
    /\ restoring \in { [op |-> "call", sources |-> ss, target |-> t,
                        restored |-> None] :
                          ss \in RestoreStored,
                          t \in { r \in RestoreSources : ~r.available } }

\* restore(target) returns
Restore ==
    /\ restoring.op = "call"
    /\ \E r \in Restored(restoring.sources, restoring.target) :
          restoring' = [restoring EXCEPT !.op = "restore", !.restored = r]
    /\ UNCHANGED << host, emitted, used, events, now, selectorVars, audioVars,
                    meterVars, naming, pc, locks, local, live, analysisVars,
                    discordVars >>

RestoreNext == Restore

RestoreSpec == RestoreInit /\ [][RestoreNext]_vars

\* ------------------------------------------------------ the analysis thread
\* the samples the analysis thread hands to the meter per tick (48000 in the
\* program)
PAREC_SAMPLE_RATE == 2 * MaxSamples

\* read lengths of the audio thread: stdout.read returns any number of bytes
ReadLengths == 1..(2 * SAMPLE_IN_BYTES)

\* the audio thread has read len bytes of the captured stream: they go to the
\* ring buffer and to the buffer of the meter
AudioThreadRead(len) ==
    /\ produced + len <= MaxProduced
    /\ produced' = produced + len
    /\ ring' = PushSlice(ring, [k \in 1..len |-> produced + k])
    /\ meter_buffer' = meter_buffer \o [k \in 1..len |-> produced + k - 1]
    /\ UNCHANGED << host, emitted, used, events, now, selectorVars, pushed,
                    delivery, meterVars, naming, pc, locks, local, live,
                    analysisThread, restoring, discordVars >>

\* buffer_len % SAMPLE_IN_BYTES * 2: the operators have the same precedence
\* and group from the left
Remainder(buffer_len) == (buffer_len % SAMPLE_IN_BYTES) * 2

\* one tick of the audio-analysis thread: the safe range is cut off the
\* buffer, converted, resized and processed, and drained.  The subtraction
\* of a larger remainder overflows: the thread panics there or, where the
\* subtraction wraps, at the slice that is out of range
AnalysisTick ==
    /\ analysisThread = "running"
    /\ processed < MaxProcessed
    /\ LET buffer_len == Len(meter_buffer)
           remainder == Remainder(buffer_len)
       IN IF remainder > buffer_len
          THEN /\ analysisThread' = "panicked"
               /\ UNCHANGED << meter_buffer, meterVars >>
          ELSE /\ meter' = StereoMeterProcess(meter,
                               [k \in 1..PAREC_SAMPLE_RATE |-> 0])
               /\ processed' = processed + 1
               /\ meter_buffer' = SubSeq(meter_buffer,
                                         buffer_len - remainder + 1, buffer_len)
               /\ UNCHANGED << analysisThread, peak >>
    /\ UNCHANGED << host, emitted, used, events, now, selectorVars, audioVars,
                    naming, pc, locks, local, live, restoring, discordVars >>

AnalysisNext ==
    \/ \E len \in ReadLengths : AudioThreadRead(len)
    \/ AnalysisTick

AnalysisSpec == Init /\ [][AnalysisNext]_vars

\* ------------------------------------------------------ the DiscordSystem
\* The DiscordSystem and its Bot, statement by statement.  Two threads call
\* it: the app thread (connect at startup and on SetConfig, disconnect on
\* RedoSetup and on exit) and the discord-events thread, which polls the
\* events of the bot and handles them.  The futures a handler spawns run on
\* the runtime, in any order.
RECURSIVE UpdatesOf(_)

nonDiscordVars == << host, emitted, used, events, now, selectorVars, audioVars,
                     meterVars, naming, pc, locks, local, live, analysisVars,
                     restoring >>

BotEvent(kind, arg) == [kind |-> kind, arg |-> arg]

\* event_sender.send(event)
Send(bs, b, event) == [bs EXCEPT ![b].queue = Append(@, event)]

\* State::set_voice_state: only a Connected state has a voice state
SetVoiceState(st, new_state) ==
    IF st.kind = "Connected" THEN [st EXCEPT !.voice = new_state] ELSE st

\* the futures on the runtime are a bag: the runtime runs them in any order
Task(b, kind) == [bot |-> b, kind |-> kind]

TaskAdded(ts, t) ==
    IF t \in DOMAIN ts THEN [ts EXCEPT ![t] = @ + 1] ELSE ts @@ (t :> 1)

TaskRemoved(ts, t) ==
    IF ts[t] > 1 THEN [ts EXCEPT ![t] = @ - 1]
    ELSE [u \in DOMAIN ts \ {t} |-> ts[u]]

\* rt.spawn(future)
Spawn(b, kind) == TaskAdded(tasks, Task(b, kind))

DEvents == dthreads.events

DApp == dthreads.app

\* the next Bot that Bot::new creates
NextBot == CHOOSE b \in Bots :
              /\ bots[b].client = "none"
              /\ \A c \in Bots : c < b => bots[c].client # "none"

\* -- the discord-events thread
\* let bot = discord.bot.lock().clone(): without a bot the thread sleeps and
\* reads again
DiscordEventsLoop ==
    /\ DEvents.pc = "loop"
    /\ bot # None
    /\ dthreads' = [dthreads EXCEPT !.events.pc = "poll", !.events.bot = bot]
    /\ UNCHANGED << bot, bots, state, is_streaming, config, tasks,
                    nonDiscordVars >>

\* Bot::poll: event_receiver.recv() blocks until the bot the thread has read
\* sends an event; the Bot holds a sender itself, so recv never fails
Poll ==
    /\ DEvents.pc = "poll"
    /\ bots[DEvents.bot].queue # <<>>
    /\ bots' = [bots EXCEPT ![DEvents.bot].queue = Tail(@)]
    /\ dthreads' = [dthreads EXCEPT
                       !.events.pc = "handle",
                       !.events.event = Head(bots[DEvents.bot].queue)]
    /\ UNCHANGED << bot, state, is_streaming, config, tasks,
                    nonDiscordVars >>

\* the thread panics in the expect of bot_unwrapped, of config_unwrapped or
\* of Bot::context
Panicked(where) ==
    /\ dthreads' = [dthreads EXCEPT !.events.pc = where]
    /\ UNCHANGED << is_streaming, tasks,
                    nonDiscordVars >>

\* stream_on_demand: config_unwrapped, the state, bot_unwrapped; the bot
\* leaves its channel when only a screen share is streamed and the target
\* user shares none, and joins and streams otherwise.  st and streaming are
\* the state and is_streaming as the handler has set them before the call
StreamOnDemand(st, streaming) ==
    IF config = NoConfig THEN Panicked("panicked in config_unwrapped")
    ELSE IF bot = None THEN Panicked("panicked in bot_unwrapped")
    ELSE /\ dthreads' = [dthreads EXCEPT !.events.pc = "loop"]
         /\ is_streaming' = streaming
         /\ tasks' = IF config = "screen_share_only" /\ ~streaming
                     THEN IF st.kind = "Connected"
                          THEN Spawn(bot, "disconnect_from_channel")
                          ELSE tasks
                     ELSE Spawn(bot, "attempt_join_and_stream")

\* handle_connected: set_state, bot_unwrapped, is_target_user_streaming on
\* that bot, whose context() expects the ready handler to have run, the store
\* of the answer, and stream_on_demand
HandleConnected(streaming) ==
    /\ state' = [kind |-> "Connected", voice |-> "Idle"]
    /\ IF bot = None THEN Panicked("panicked in bot_unwrapped")
       ELSE IF ~bots[bot].context THEN Panicked("panicked in context")
       ELSE StreamOnDemand(state', streaming)

\* handle_target_user_moved: with a channel the voice state is Active and
\* stream_on_demand follows; without one it is Idle and the bot is told to
\* leave its channel
HandleTargetUserMoved(new_channel) ==
    IF new_channel
    THEN /\ state' = SetVoiceState(state, "Active")
         /\ StreamOnDemand(state', is_streaming)
    ELSE /\ state' = SetVoiceState(state, "Idle")
         /\ IF bot = None THEN Panicked("panicked in bot_unwrapped")
            ELSE /\ tasks' = Spawn(bot, "disconnect_from_channel")
                 /\ dthreads' = [dthreads EXCEPT !.events.pc = "loop"]
                 /\ UNCHANGED is_streaming

\* handle_target_user_stream_state_changed
HandleTargetUserStreamStateChanged(new_state) ==
    /\ StreamOnDemand(state, new_state)
    /\ UNCHANGED state

\* the handlers that set the state or the voice state and return
HandleSet(new_state) ==
    /\ state' = new_state
    /\ dthreads' = [dthreads EXCEPT !.events.pc = "loop"]
    /\ UNCHANGED << is_streaming, tasks,
                    nonDiscordVars >>

\* discord.handle_event(event); streaming is what is_target_user_streaming
\* answers
HandleBotEvent(streaming) ==
    /\ DEvents.pc = "handle"
    /\ LET event == DEvents.event
       IN CASE event.kind = "Connected" -> HandleConnected(streaming)
            [] event.kind = "ClientError" ->
                 HandleSet([kind |-> "Error", voice |-> "Idle"])
            [] event.kind = "Joining" ->
                 HandleSet(SetVoiceState(state, "Joining"))
            [] event.kind = "Joined" ->
                 HandleSet(SetVoiceState(state, "Active"))
            [] event.kind = "Left" ->
                 HandleSet(SetVoiceState(state, "Idle"))
            [] event.kind = "VoiceError" ->
                 HandleSet(SetVoiceState(state, "Error"))
            [] event.kind = "TargetUserMoved" ->
                 HandleTargetUserMoved(event.arg)
            [] event.kind = "TargetUserStreamStateChanged" ->
                 HandleTargetUserStreamStateChanged(event.arg)
    /\ UNCHANGED << bot, bots, config,
                    nonDiscordVars >>

DiscordEventsStep ==
    \/ DiscordEventsLoop
    \/ Poll
    \/ \E streaming \in BOOLEAN : HandleBotEvent(streaming)

\* -- the Bot
\* Bot::disconnect_from_channel: a bot that is in a channel takes the channel,
\* removes the call and returns; Left is sent by the bot that is in none
DisconnectFromChannel(bs, b) ==
    IF bs[b].connected_to_channel
    THEN [bs EXCEPT ![b].connected_to_channel = FALSE]
    ELSE Send(bs, b, BotEvent("Left", FALSE))

\* Bot::stop: a bot that is ready leaves its channel and turns invisible; the
\* shards are shut down
Stop(bs, b) ==
    LET left == IF bs[b].context THEN DisconnectFromChannel(bs, b) ELSE bs
    IN [left EXCEPT ![b].client = "shutdown"]

\* a spawned future runs.  Each of them starts with context(), which panics
\* in a bot that is not ready: the future ends there
RunDisconnectFromChannel(t) ==
    /\ t.kind = "disconnect_from_channel"
    /\ tasks' = TaskRemoved(tasks, t)
    /\ bots' = IF bots[t.bot].context
               THEN DisconnectFromChannel(bots, t.bot)
               ELSE bots
    /\ UNCHANGED << bot, state, is_streaming, config, dthreads,
                    nonDiscordVars >>

\* what attempt_join_and_stream meets: the target user is in no channel, or
\* manager.join fails or succeeds
Joins == { "not located", "failed", "joined" }

\* attempt_join_and_stream: locate_target_user_channel and connect_to_channel,
\* which sends Joining and then VoiceError or, with the channel kept in
\* connected_to_channel, Joined
RunAttemptJoin(t, join) ==
    /\ t.kind = "attempt_join_and_stream"
    /\ tasks' = TaskRemoved(tasks, t)
    /\ bots' =
         IF ~bots[t.bot].context \/ join = "not located" THEN bots
         ELSE LET joining == Send(bots, t.bot, BotEvent("Joining", FALSE))
              IN IF join = "joined"
                 THEN Send([joining EXCEPT
                               ![t.bot].connected_to_channel = TRUE],
                           t.bot, BotEvent("Joined", FALSE))
                 ELSE Send(joining, t.bot, BotEvent("VoiceError", FALSE))
    /\ UNCHANGED << bot, state, is_streaming, config, dthreads,
                    nonDiscordVars >>

RuntimeStep ==
    \E t \in DOMAIN tasks :
        \/ RunDisconnectFromChannel(t)
        \/ \E join \in Joins : RunAttemptJoin(t, join)

\* BotHandler::ready: the gateway has accepted the client
Ready(b) ==
    /\ bots[b].client = "running"
    /\ ~bots[b].context
    /\ bots' = Send([bots EXCEPT ![b].context = TRUE], b,
                    BotEvent("Connected", FALSE))
    /\ UNCHANGED << bot, state, is_streaming, config, tasks, dthreads,
                    nonDiscordVars >>

\* client.start() has failed in the future Bot::new spawned.  It returns
\* without an error when the shards are shut down
ClientError(b) ==
    /\ bots[b].client = "running"
    /\ ~bots[b].context
    /\ bots' = Send([bots EXCEPT ![b].client = "failed"], b,
                    BotEvent("ClientError", FALSE))
    /\ UNCHANGED << bot, state, is_streaming, config, tasks, dthreads,
                    nonDiscordVars >>

\* what the target user did, as voice_state_update tells it apart: the stream
\* state and the channel
StreamChanges == { "same", "started", "stopped" }

ChannelChanges == { "same", "another channel", "the channel of the bot",
                    "no channel" }

\* the voice state updates the gateway has sent so far
UpdatesOf(b) == IF b = 0 THEN 0 ELSE bots[b].gateway + UpdatesOf(b - 1)

Updates == UpdatesOf(MaxBots)

\* BotHandler::voice_state_update for the target user: a changed stream state
\* is sent, and then a changed channel, which counts as none when it is the
\* channel the bot is in already
VoiceStateUpdate(b, self_stream, channel) ==
    /\ bots[b].client = "running"
    /\ bots[b].context
    /\ Updates < MaxGateway
    /\ self_stream # "same" \/ channel # "same"
    /\ channel = "the channel of the bot" => bots[b].connected_to_channel
    /\ LET counted == [bots EXCEPT ![b].gateway = @ + 1]
           streamed == IF self_stream = "same" THEN counted
                       ELSE Send(counted, b,
                                 BotEvent("TargetUserStreamStateChanged",
                                          self_stream = "started"))
       IN bots' = IF channel = "same" THEN streamed
                  ELSE Send(streamed, b,
                            BotEvent("TargetUserMoved",
                                     channel = "another channel"))
    /\ UNCHANGED << bot, state, is_streaming, config, tasks, dthreads,
                    nonDiscordVars >>

GatewayStep ==
    \E b \in Bots :
        \/ Ready(b)
        \/ ClientError(b)
        \/ \E self_stream \in StreamChanges, channel \in ChannelChanges :
              VoiceStateUpdate(b, self_stream, channel)

\* -- the app thread
\* DiscordSystem::connect, called where no bot is set (at startup and from the
\* setup view): Bot::new, the bot and the config are set, set_state
Connect(new_config) ==
    /\ DApp.pc = "idle"
    /\ bot = None
    /\ \E b \in Bots : bots[b].client = "none"
    /\ bots' = [bots EXCEPT ![NextBot].client = "running"]
    /\ bot' = NextBot
    /\ config' = new_config
    /\ state' = [kind |-> "Connecting", voice |-> "Idle"]
    /\ UNCHANGED << is_streaming, tasks, dthreads,
                    nonDiscordVars >>

\* DiscordSystem::disconnect, called from the dashboard and on exit:
\* let bot = self.bot.lock().take()
Disconnect ==
    /\ DApp.pc = "idle"
    /\ bot # None
    /\ bot' = None
    /\ dthreads' = [dthreads EXCEPT !.app.pc = "disconnect: stop",
                                    !.app.bot = bot]
    /\ UNCHANGED << bots, state, is_streaming, config, tasks,
                    nonDiscordVars >>

\* disconnect: self.rt.block_on(bot.stop())
DisconnectStop ==
    /\ DApp.pc = "disconnect: stop"
    /\ bots' = Stop(bots, DApp.bot)
    /\ dthreads' = [dthreads EXCEPT !.app.pc = "disconnect: state",
                                    !.app.bot = None]
    /\ UNCHANGED << bot, state, is_streaming, config, tasks,
                    nonDiscordVars >>

\* disconnect: self.set_state(State::Idle)
DisconnectState ==
    /\ DApp.pc = "disconnect: state"
    /\ state' = StateIdle
    /\ dthreads' = [dthreads EXCEPT !.app.pc = "idle"]
    /\ UNCHANGED << bot, bots, is_streaming, config, tasks,
                    nonDiscordVars >>

\* the statements of a call that has begun
DiscordAppStep ==
    \/ DisconnectStop
    \/ DisconnectState

DiscordNext ==
    \/ DiscordEventsLoop
    \/ Poll
    \/ \E streaming \in BOOLEAN : HandleBotEvent(streaming)
    \/ \E t \in DOMAIN tasks : RunDisconnectFromChannel(t)
    \/ \E t \in DOMAIN tasks, join \in Joins : RunAttemptJoin(t, join)
    \/ \E b \in Bots : Ready(b)
    \/ \E b \in Bots : ClientError(b)
    \/ \E b \in Bots, self_stream \in StreamChanges,
          channel \in ChannelChanges : VoiceStateUpdate(b, self_stream, channel)
    \/ \E new_config \in Configs : Connect(new_config)
    \/ Disconnect
    \/ DisconnectStop
    \/ DisconnectState

DiscordSpec == Init /\ [][DiscordNext]_vars

\* The threads and the runtime are scheduled: a statement that can run does.
\* What the user and the gateway do is not forced.
FairDiscordSpec ==
    /\ DiscordSpec
    /\ WF_vars(DiscordEventsStep)
    /\ WF_vars(DiscordAppStep)
    /\ WF_vars(RuntimeStep)

\* ------------------------------------------------------------ the threads
\* The calls of the program, statement by statement, with the mutexes they
\* take.  A parking_lot mutex is not reentrant, is released when its guard
\* goes out of scope, and is released by the unwinding of a panic.  A
\* statement that takes a mutex and drops the guard at its end is one step,
\* which waits until the mutex is free.
Free(m) == locks[m] = "free"

Lock(t, m) == [locks EXCEPT ![m] = t]

\* a guard that is leaked instead of dropped
UnlockForgotten(m) == locks

Unlock(m) == [locks EXCEPT ![m] = "free"]

\* the guards of a panicking thread are dropped
Unwind(t) == [m \in Mutexes |-> IF locks[m] = t THEN "free" ELSE locks[m]]

Goto(t, label) == [pc EXCEPT ![t] = label]

\* the Source handles the calls in progress hold
Handles_(loc) ==
    UNION { {loc[t].selected_source, loc[t].current_source, loc[t].source} :
            t \in Threads }

\* an object that neither the selector nor a call in progress refers to is
\* dropped
ThreadCollect(h, st, cur, sel, loc) ==
    [id \in 1..Len(h) |->
        IF id \in Range(st) \/ id = cur \/ id = sel \/ id \in Handles_(loc)
        THEN h[id] ELSE Freed]

\* what no statement of a thread changes
envVars == << host, emitted, used, now, constructed, last, produced, meterVars,
              naming, extVars >>

\* spawn_event_thread: the thread takes the producer for good
EventsSpawn ==
    /\ constructed
    /\ pc["events"] = "spawn"
    /\ Free("producer")
    /\ locks' = Lock("events", "producer")
    /\ pc' = Goto("events", "recv")
    /\ UNCHANGED << envVars, events, heap, stored, current, selected, stream,
                    eventThread, appThread, ring, pushed, delivery, local,
                    live >>

\* events.recv()
EventsRecv ==
    /\ pc["events"] = "recv"
    /\ events # <<>>
    /\ events' = Tail(events)
    /\ local' = [local EXCEPT !["events"].event = Head(events)]
    /\ pc' = Goto("events", IF Head(events).operation = "Audio"
                            THEN "push" ELSE "lock_stored")
    /\ UNCHANGED << envVars, heap, stored, current, selected, stream,
                    eventThread, appThread, ring, pushed, delivery, locks,
                    live >>

\* handle_sink_input_event: self.stored_sources.lock()
EventsLockStored ==
    /\ pc["events"] = "lock_stored"
    /\ Free("stored_sources")
    /\ locks' = Lock("events", "stored_sources")
    /\ pc' = Goto("events", IF local["events"].event.operation = "New"
                            THEN "read_selected" ELSE "handle")
    /\ UNCHANGED << envVars, events, heap, stored, current, selected, stream,
                    eventThread, appThread, ring, pushed, delivery, local,
                    live >>

\* the New arm: self.selected_source() clones under the mutex of the selected
\* source, while the mutex of the catalog is held
EventsReadSelected ==
    /\ pc["events"] = "read_selected"
    /\ Free("selected_source")
    /\ local' = [local EXCEPT !["events"].selected_source = selected]
    /\ pc' = Goto("events", "handle")
    /\ UNCHANGED << envVars, events, heap, stored, current, selected, stream,
                    eventThread, appThread, ring, pushed, delivery, locks,
                    live >>

\* the enumeration, the arm of the operation and the retain, under the mutex
\* of the catalog; the guard is dropped on return and on a panic
EventsHandle(enumOk) ==
    /\ pc["events"] = "handle"
    /\ LET e == local["events"].event
           s == HandleSinkInputEvent(heap, stored,
                                     local["events"].selected_source, e.index,
                                     e.operation, enumOk, host, now)
       IN /\ local' = [local EXCEPT !["events"] = NoLocals]
          /\ stored' = s.stored
          /\ heap' = ThreadCollect(s.heap, s.stored, current, selected, local')
          /\ IF s.panic
             THEN /\ eventThread' = "panicked"
                  /\ locks' = Unwind("events")
                  /\ pc' = Goto("events", "panicked")
             ELSE /\ eventThread' = eventThread
                  /\ locks' = Unlock("stored_sources")
                  /\ pc' = Goto("events", "read_current")
    /\ UNCHANGED << envVars, events, current, selected, stream, appThread,
                    ring, pushed, delivery, live >>

\* refresh_stream: self.selector.current_source() clones and filters under
\* the mutex of the current source
RefreshReadCurrent(t) ==
    /\ pc[t] = "read_current"
    /\ Free("current_source")
    /\ local' = [local EXCEPT ![t].current_source =
                                  CurrentSourceOf(heap, current)]
    /\ pc' = Goto(t, IF CurrentSourceOf(heap, current) # None
                     THEN "record" ELSE "store")
    /\ UNCHANGED << envVars, events, heap, stored, current, selected, stream,
                    eventThread, appThread, ring, pushed, delivery, locks,
                    live >>

\* self.client.record(&source.sink_input()).expect(..): a new capture stream
\* is open on the host, or the thread panics
RefreshRecord(t, recordOk) ==
    /\ pc[t] = "record"
    /\ LET r == Record(heap[local[t].current_source].index, recordOk)
       IN IF r.ok
          THEN /\ local' = [local EXCEPT ![t].stream = r.stream]
               /\ live' = live + 1
               /\ pc' = Goto(t, "store")
               /\ UNCHANGED << locks, heap, eventThread, appThread >>
          ELSE /\ local' = [local EXCEPT ![t] = NoLocals]
               /\ heap' = ThreadCollect(heap, stored, current, selected, local')
               /\ locks' = Unwind(t)
               /\ pc' = Goto(t, "panicked")
               /\ eventThread' = IF t = "events" THEN "panicked"
                                 ELSE eventThread
               /\ appThread' = IF t = "app" THEN "panicked" ELSE appThread
               /\ live' = live
    /\ UNCHANGED << envVars, events, stored, current, selected, stream, ring,
                    pushed, delivery >>

\* *self.stream.lock() = ..: the assignment to the slot under its mutex; the
\* stream that was in the slot is dropped
RefreshStore(t) ==
    /\ pc[t] = "store"
    /\ Free("stream")
    /\ stream' = local[t].stream
    /\ live' = IF stream # NoStream THEN live - 1 ELSE live
    /\ local' = [local EXCEPT ![t] = NoLocals]
    /\ heap' = ThreadCollect(heap, stored, current, selected, local')
    /\ pc' = Goto(t, IF t = "events" THEN "recv" ELSE "idle")
    /\ UNCHANGED << envVars, events, stored, current, selected, eventThread,
                    appThread, ring, pushed, delivery, locks >>

\* the Audio arm: producer.push_slice(&data)
EventsPush ==
    /\ pc["events"] = "push"
    /\ ring' = PushSlice(ring, local["events"].event.data)
    /\ pushed' = IF Len(ring') > Len(ring) THEN ring'[Len(ring')] ELSE pushed
    /\ pc' = Goto("events", "write")
    /\ UNCHANGED << envVars, events, heap, stored, current, selected, stream,
                    eventThread, appThread, delivery, locks, local, live >>

\* audio.meter.write(&data), under the mutex of the meter's buffer
EventsWrite ==
    /\ pc["events"] = "write"
    /\ Free("meter")
    /\ local' = [local EXCEPT !["events"] = NoLocals]
    /\ pc' = Goto("events", "recv")
    /\ UNCHANGED << envVars, events, heap, stored, current, selected, stream,
                    eventThread, appThread, ring, pushed, delivery, locks,
                    live >>

\* the app calls AudioSystem::select
AppSelect(source) ==
    /\ constructed
    /\ pc["app"] = "idle"
    /\ local' = [local EXCEPT !["app"].source = source]
    /\ pc' = Goto("app", "set_current")
    /\ UNCHANGED << envVars, events, heap, stored, current, selected, stream,
                    eventThread, appThread, ring, pushed, delivery, locks,
                    live >>

\* SourceSelector::select: *self.current_source.lock() = ..
AppSetCurrent ==
    /\ pc["app"] = "set_current"
    /\ Free("current_source")
    /\ current' = SelectorSelect(local["app"].source)[1]
    /\ heap' = ThreadCollect(heap, stored, current', selected, local)
    /\ pc' = Goto("app", "set_selected")
    /\ UNCHANGED << envVars, events, stored, selected, stream, eventThread,
                    appThread, ring, pushed, delivery, locks, local, live >>

\* *self.selected_source.lock() = ..
AppSetSelected ==
    /\ pc["app"] = "set_selected"
    /\ Free("selected_source")
    /\ selected' = SelectorSelect(local["app"].source)[2]
    /\ local' = [local EXCEPT !["app"].source = None]
    /\ heap' = ThreadCollect(heap, stored, current, selected', local')
    /\ pc' = Goto("app", "read_current")
    /\ UNCHANGED << envVars, events, stored, current, stream, eventThread,
                    appThread, ring, pushed, delivery, locks, live >>

\* the voice client calls into_input or read on its AudioStream: the call
\* takes the mutex of the consumer, which no other thread takes, and returns
VoiceIntoInput ==
    /\ constructed
    /\ Free("consumer")
    /\ ring' = Clear(ring)
    /\ UNCHANGED << envVars, events, heap, stored, current, selected, stream,
                    eventThread, appThread, pushed, delivery, pc, locks, local,
                    live >>

VoiceRead(len) ==
    /\ constructed
    /\ Free("consumer")
    /\ ring' = AudioStreamRead(ring, len).ring
    /\ UNCHANGED << envVars, events, heap, stored, current, selected, stream,
                    eventThread, appThread, pushed, delivery, pc, locks, local,
                    live >>

\* the getters of AudioContext and the mutex each of them takes
UiCalls ==
    [sources |-> "stored_sources", current_source |-> "current_source",
     selected_source |-> "selected_source", status |-> "stream"]

\* the interface calls a getter of AudioContext: it takes the mutex, clones
\* and returns, or it waits for the mutex
UiCall(op) ==
    /\ constructed
    /\ pc["ui"] = "idle"
    /\ pc' = IF Free(UiCalls[op]) THEN pc ELSE Goto("ui", op)
    /\ UNCHANGED << envVars, events, heap, stored, current, selected, stream,
                    eventThread, appThread, ring, pushed, delivery, locks,
                    local, live >>

\* the mutex the getter waited for is free: it takes it, clones and returns
UiReturn ==
    /\ pc["ui"] \in DOMAIN UiCalls
    /\ Free(UiCalls[pc["ui"]])
    /\ pc' = Goto("ui", "idle")
    /\ UNCHANGED << envVars, events, heap, stored, current, selected, stream,
                    eventThread, appThread, ring, pushed, delivery, locks,
                    local, live >>

\* the statements of a thread, the calls its caller starts left aside
EventsStep ==
    \/ EventsSpawn
    \/ EventsRecv
    \/ EventsLockStored
    \/ EventsReadSelected
    \/ \E enumOk \in BOOLEAN : EventsHandle(enumOk)
    \/ RefreshReadCurrent("events")
    \/ \E recordOk \in BOOLEAN : RefreshRecord("events", recordOk)
    \/ RefreshStore("events")
    \/ EventsPush
    \/ EventsWrite

AppStep ==
    \/ AppSetCurrent
    \/ AppSetSelected
    \/ RefreshReadCurrent("app")
    \/ \E recordOk \in BOOLEAN : RefreshRecord("app", recordOk)
    \/ RefreshStore("app")

\* the capture stream forwards a chunk of one stereo frame; the chunks count
\* as events of the host
ThreadStreamAudio ==
    /\ emitted < MaxEvents
    /\ emitted' = emitted + 1
    /\ Running
    /\ constructed
    /\ stream # NoStream
    /\ Len(events) < MaxQueue
    /\ produced' = produced + SAMPLE_IN_BYTES * 2
    /\ events' = Append(events,
                        [operation |-> "Audio",
                         data |-> [k \in 1..(SAMPLE_IN_BYTES * 2) |->
                                      produced + k]])
    /\ UNCHANGED << host, used, now, selectorVars, ring, pushed, delivery,
                    auxVars >>

\* the one application of the initial state, as the host presents it
ThreadProfile == [application |-> "vlc", name |-> "VLC", volume |-> 100]

ThreadNext ==
    \/ \E i \in Indices : HostCreate(i, ThreadProfile)
    \/ \E i \in Indices : HostRemove(i)
    \/ ThreadStreamAudio
    \/ EventsStep
    \/ \E source \in {None} \cup Range(Sources) : AppSelect(source)
    \/ AppStep
    \/ VoiceIntoInput
    \/ VoiceRead(SAMPLE_IN_BYTES * 2)
    \/ \E op \in DOMAIN UiCalls : UiCall(op)
    \/ UiReturn

\* AudioSystem::new has returned: the selector has enumerated the one
\* application that runs, and the event thread is about to start
ThreadInit ==
    /\ host = [i \in Indices |-> IF i = 0
                   THEN [index |-> 0, name |-> "VLC", application |-> "vlc",
                         volume |-> 100]
                   ELSE NoSink]
    /\ emitted = 0
    /\ used = 1
    /\ events = <<>>
    /\ now = 0
    /\ constructed = TRUE
    /\ heap = Enumerate(host, 0, now)
    /\ stored = [k \in 1..Len(heap) |-> k]
    /\ current = None
    /\ selected = None
    /\ stream = NoStream
    /\ eventThread = "running"
    /\ appThread = "running"
    /\ last = [op |-> "none", arg |-> None, reconciled |-> FALSE,
               record |-> "none"]
    /\ ring = <<>>
    /\ produced = 0
    /\ pushed = 0
    /\ delivery = NoDelivery
    /\ meter = StereoMeterNew
    /\ processed = 0
    /\ peak = [left |-> 0, right |-> 0]
    /\ naming = NoName
    /\ pc = [t \in Threads |-> IF t = "events" THEN "spawn" ELSE "idle"]
    /\ locks = [m \in Mutexes |-> "free"]
    /\ local = [t \in Threads |-> NoLocals]
    /\ live = 0
    /\ ExtInit

ThreadSpec == ThreadInit /\ [][ThreadNext]_vars

\* every runnable thread is scheduled, a thread that waits for a parking_lot
\* mutex gets it after finitely many hand-overs, and the calls into the host
\* return
FairThreadSpec ==
    /\ ThreadSpec
    /\ SF_vars(EventsStep)
    /\ SF_vars(AppStep)
    /\ SF_vars(UiReturn)

\* ------------------------------------------------------------ vocabulary
\* the event thread takes a step that handles an event of that operation
\* with a successful enumeration
Handles(operation, recordOk) ==
    /\ events # <<>>
    /\ Head(events).operation = operation
    /\ events' = Tail(events)
    /\ HandleEvent(TRUE, recordOk)

\* the sink input the enumeration reports for the event at the head of the
\* channel
Incoming == host[Head(events).index]

\* the selected source is unavailable and the event at the head of the channel
\* is about a live sink input
AwaitsReconciliation ==
    /\ events # <<>>
    /\ Incoming # NoSink
    /\ selected # None
    /\ ~heap[selected].available

\* the Jaro score of two names is above 0.3
JaroAboveThreshold(a, b) ==
    LET score == Jaro(Chars(a), Chars(b))
    IN 10 * score[1] > 3 * score[2]

\* ------------------------------------------------------------------ C1
\* C1: a New event for a sink input of the same application as the
\* unavailable selected source, with an equal name or a Jaro score above 0.3,
\* updates the selected Source in place (available, age reset, index, name and
\* volume of the new sink input) and adds no entry to the catalog.
C1_IdentityStability ==
    [][ \A recordOk \in BOOLEAN :
          ( /\ Handles("New", recordOk)
            /\ AwaitsReconciliation
            /\ Incoming.application = heap[selected].application
            /\ \/ Incoming.name = heap[selected].name
               \/ JaroAboveThreshold(heap[selected].name, Incoming.name) )
          => /\ selected' = selected
             /\ heap'[selected].available
             /\ heap'[selected].age = now
             /\ heap'[selected].index = Incoming.index
             /\ heap'[selected].name = Incoming.name
             /\ heap'[selected].volume = Incoming.volume
             /\ Range(stored') \subseteq Range(stored)
             /\ Len(stored') <= Len(stored) ]_vars

\* a New event has just reconciled the selected vlc source, by name
\* similarity, with a sink input at another index
C1_Witness ==
    /\ last.op = "New"
    /\ last.reconciled
    /\ selected # None
    /\ heap[selected].available
    /\ heap[selected].age = now
    /\ heap[selected].application = "vlc"
    /\ heap[selected].name = "VLC media"
    /\ heap[selected].index = 1
    /\ host[1] # NoSink
    /\ host[1].application = "vlc"

\* ------------------------------------------------------------------ C2
\* C2 as stated: a New sink input of another application than the unavailable
\* selected source is never reconciled into it, whatever the names and the
\* indices.
C2_NeverAcrossApplications ==
    [][ \A recordOk \in BOOLEAN :
          ( /\ Handles("New", recordOk)
            /\ AwaitsReconciliation
            /\ Incoming.application # heap[selected].application )
          => heap'[selected] = heap[selected] ]_vars

\* C2, amended: a New sink input of another application than the unavailable
\* selected source, whose name and raw index both differ from those of the
\* selected source, is not reconciled into it: the selected source is left as
\* it was and the sink input becomes a catalog entry of its own.
C2_IdentityRejection ==
    [][ \A recordOk \in BOOLEAN :
          ( /\ Handles("New", recordOk)
            /\ AwaitsReconciliation
            /\ Incoming.application # heap[selected].application
            /\ Incoming.name # heap[selected].name
            /\ Incoming.index # heap[selected].index )
          => /\ heap'[selected] = heap[selected]
             /\ Len(heap') = Len(heap) + 1
             /\ heap'[Len(heap')].application = Incoming.application
             /\ heap'[Len(heap')].index = Incoming.index
             /\ stored' # <<>>
             /\ stored'[Len(stored')] = Len(heap') ]_vars

\* a New event has just inserted a sink input of another application, of
\* another name and index, next to the unavailable selected source
C2_Witness ==
    /\ last.op = "New"
    /\ ~last.reconciled
    /\ eventThread = "running"
    /\ selected # None
    /\ ~heap[selected].available
    /\ stored # <<>>
    /\ LET new == heap[stored[Len(stored)]]
       IN /\ new.available
          /\ new.age = now
          /\ new.application # heap[selected].application
          /\ new.name # heap[selected].name
          /\ new.index # heap[selected].index
          /\ JaroAboveThreshold(heap[selected].name, new.name)

\* the raw index current_source() reports, -1 without a current source
CurrentIndex == IF CurrentSource = None THEN -1 ELSE heap[CurrentSource].index

\* how many catalog entries are that Source
Occurrences(st, id) == Cardinality({ k \in 1..Len(st) : st[k] = id })

\* ------------------------------------------------------------------ C3
\* C3: when the selected source has been removed (no stream is open any more)
\* and a New event arrives for another index with the same application and
\* name, and the host calls succeed, selected_source() and current_source()
\* both report the Source that was selected before, available and carrying the
\* new index; the catalog holds it at most once and gains no entry; a stream is
\* opened against the new index.
C3_Restart ==
    [][ ( /\ Handles("New", TRUE)
          /\ AwaitsReconciliation
          /\ Incoming.application = heap[selected].application
          /\ Incoming.name = heap[selected].name
          /\ Incoming.index # heap[selected].index )
        => /\ stream = NoStream
           /\ SelectedSource' = selected
           /\ CurrentSource' = selected
           /\ heap'[selected].available
           /\ heap'[selected].index = Incoming.index
           /\ Occurrences(stored', selected) <= 1
           /\ Range(stored') \subseteq Range(stored)
           /\ last'.record = "ok"
           /\ stream' = [open |-> TRUE, index |-> Incoming.index,
                         status |-> "Idle"]
           /\ eventThread' = "running" ]_vars

\* the restarted application has been reconciled: the selected source is
\* current again at index 1 with the name it had, in the catalog, and the stream
\* is open against index 1
C3_Witness ==
    /\ last.op = "New"
    /\ last.reconciled
    /\ last.record = "ok"
    /\ selected # None
    /\ CurrentSource = selected
    /\ heap[selected].name = "VLC"
    /\ heap[selected].application = "vlc"
    /\ heap[selected].index = 1
    /\ Occurrences(stored, selected) = 1
    /\ stream # NoStream
    /\ stream.index = 1

\* ------------------------------------------------------------------ C4
\* C4 as stated: sources() never contains an unavailable Source whose age has
\* reached MAX_LIFESPAN, and contains every catalogued unavailable Source
\* younger than that (the Spotify entries aside).
C4_TtlEviction ==
    /\ \A id \in Range(Sources) :
           ~(~heap[id].available /\ now - heap[id].age >= 60)
    /\ \A id \in Range(stored) :
           ( /\ ~heap[id].available
             /\ now - heap[id].age < 60
             /\ heap[id].name # "Spotify" )
           => id \in Range(Sources)

\* ------------------------------------------------------------------ C5
\* C5: select(Some(x)) leaves current_source and selected_source both holding
\* x, select(None) leaves both empty.
C5_SelectSetsBoth ==
    last.op = "select"
        => /\ current = last.arg
           /\ selected = last.arg

\* a select of a Source has just run and both fields hold the same Source
C5_Witness ==
    /\ last.op = "select"
    /\ current # None
    /\ current = selected

\* ------------------------------------------------------------------ C6
\* current_source() and selected_source() differ exactly when a source is
\* selected and it is unavailable
DivergeExactlyWhenUnavailable ==
    (CurrentSource # SelectedSource)
        <=> (selected # None /\ ~heap[selected].available)

C7_SelectRefreshes ==
    ( /\ last.op = "select"
      /\ appThread = "running" )
    => /\ last.arg = None => (stream = NoStream /\ Status = "Idle")
       /\ (last.arg # None /\ heap[last.arg].available)
            => /\ last.record = "ok"
               /\ stream # NoStream
               /\ stream.index = heap[last.arg].index

\* select(None) has just returned after a stream had been open: the slot is
\* empty
C7_Witness ==
    /\ last.op = "select"
    /\ appThread = "running"
    /\ selected = None
    /\ stream = NoStream
    /\ Status = "Idle"
    /\ \E id \in Range(stored) : heap[id].available

\* ------------------------------------------------------------------ C8
\* C8: when a handled SinkInput event changes the index current_source()
\* reports, the stream slot is replaced: empty without a current source, else a
\* newly opened stream; after every handled event an open stream is pinned to
\* the index current_source() reports.
C8_EventRefreshes ==
    [][ \A operation \in {"New", "Changed", "Removed"}, recordOk \in BOOLEAN :
          ( /\ eventThread' = "running"
            /\ Handles(operation, recordOk) )
          => /\ CurrentIndex' # CurrentIndex
                  => IF CurrentSource' = None
                     THEN stream' = NoStream
                     ELSE last'.record = "ok" /\ stream' # NoStream
             /\ stream' # NoStream
                  => /\ CurrentSource' # None
                     /\ stream'.index = CurrentIndex' ]_vars

\* a Removed event has just taken the current source away and the stream is
\* torn down
C8_Witness ==
    /\ last.op = "Removed"
    /\ eventThread = "running"
    /\ selected # None
    /\ current = selected
    /\ CurrentSource = None
    /\ stream = NoStream
    /\ Occurrences(stored, selected) = 1

\* ------------------------------------------------------------------ C9
\* C9 as stated: when record fails during a refresh, the failure shows as a
\* Failed status and the calling thread keeps running.
C9_RecordFailureIsStatus ==
    last.record = "err"
        => /\ appThread = "running"
           /\ eventThread = "running"
           /\ Status = "Failed"

\* ------------------------------------------------------------------ C10
\* C10 as stated: whatever the events and the enumeration results,
\* handle_sink_input_event returns and the event thread keeps running (a
\* failure of record during the refresh aside).
C10_EventThreadSurvives ==
    last.record # "err" => eventThread = "running"

\* ------------------------------------------------------------------ C11
\* the size of a stereo frame in bytes
Stereo == SAMPLE_IN_BYTES * 2

\* C11: whatever the length of the caller's buffer and whatever the ring
\* buffer holds, the byte count AudioStream::read returns is a multiple of the
\* stereo frame size (8 bytes).
C11_FrameAlignment ==
    delivery.op \in {"read", "read failed"} => delivery.n % Stereo = 0

\* a read into a buffer that is no whole number of frames has just returned
\* while the ring buffer held a frame and a half
C11_Witness ==
    /\ delivery.op = "read"
    /\ delivery.len % Stereo # 0
    /\ delivery.n > 0
    /\ Len(delivery.data) % Stereo # 0
    /\ Len(delivery.data) > Stereo

\* ------------------------------------------------------------------ C12
\* C12 as stated: no read ever reports an error or the end of the stream
\* (Ok(0) for a buffer that is not empty).
C12_NeverEndOfStreamAnyBuffer ==
    /\ delivery.op # "read failed"
    /\ (delivery.op = "read" /\ delivery.len > 0) => delivery.n > 0

\* C12, amended: no read reports an error, and a read into a buffer of at
\* least one stereo frame never reports the end of the stream, whatever the
\* capture state: it returns a positive byte count also with an empty ring
\* buffer, with no source selected and after select(None).
C12_NeverEndOfStream ==
    /\ delivery.op # "read failed"
    /\ (delivery.op = "read" /\ delivery.len >= Stereo) => delivery.n > 0

\* after select(None), with no stream open and an empty ring buffer, a read
\* into a buffer of a frame or more has returned a positive count and no byte
C12_Witness ==
    /\ delivery.op = "read"
    /\ delivery.len >= Stereo
    /\ delivery.n > 0
    /\ delivery.data = <<>>
    /\ last.op = "select"
    /\ selected = None
    /\ stream = NoStream
    /\ ring = <<>>

\* ------------------------------------------------------------------ C13
\* C13: the ring buffer never holds more than BUFFER_SIZE bytes; handling an
\* Audio event appends a prefix of the chunk behind the bytes already
\* buffered, which stay as they were, and the prefix is shorter than the chunk
\* only when the ring buffer is full afterwards.
C13_BoundedRing ==
    /\ [](Len(ring) <= BUFFER_SIZE)
    /\ [][ HandleAudio =>
             \E k \in 0..Len(Head(events).data) :
                /\ ring' = ring \o SubSeq(Head(events).data, 1, k)
                /\ k < Len(Head(events).data) => Len(ring') = BUFFER_SIZE
          ]_vars

\* every chunk delivered has been handled, the ring buffer is full and the
\* last bytes delivered did not enter it
C13_Witness ==
    /\ last.op = "Audio"
    /\ events = <<>>
    /\ Len(ring) = BUFFER_SIZE
    /\ pushed < produced
    /\ ring[Len(ring)] = pushed

\* ------------------------------------------------------------------ C14
\* C14: into_input empties the ring buffer: no byte that had entered the ring
\* buffer before the last into_input is in the ring buffer or in what a later
\* read returned.
C14_FlushOnStart ==
    /\ \A k \in 1..Len(ring) : ring[k] > delivery.flushed
    /\ \A k \in 1..Len(delivery.data) : delivery.data[k] > delivery.flushed

\* into_input cleared buffered bytes, and a later read returned bytes
C14_Witness ==
    /\ delivery.op = "read"
    /\ delivery.cleared > 0
    /\ delivery.data # <<>>

\* ------------------------------------------------------------------ C15
\* C15 as stated: handling an Audio event while current_source() reports no
\* source leaves the ring buffer as it was.
C15_NoSourceNoBytes ==
    [][ (HandleAudio /\ CurrentSource = None) => ring' = ring ]_vars

\* ------------------------------------------------------------------ C16
\* C16 as stated: once the system is built, every step that changes the
\* catalog, current_source, selected_source or the stream slot is an iteration
\* of the event thread.
C16_SingleWriter ==
    [][ ( /\ constructed
          /\ \/ stored' # stored
             \/ current' # current
             \/ selected' # selected
             \/ stream' # stream )
        => \E enumOk \in BOOLEAN, recordOk \in BOOLEAN :
              HandleEvent(enumOk, recordOk) ]_vars

\* ------------------------------------------------------------------ C17
\* the catalog entry the handler finds for the event at the head of the
\* channel: the first one with that raw index
Existing == FindByIndex(heap, stored, Head(events).index)

\* handle_sink_input_event has returned in this step (the refresh after it may
\* have failed)
HandlerReturns == eventThread' = "running" \/ last'.record = "err"

C18_PersistsAfterRemoval ==
    [][ \A recordOk \in BOOLEAN :
          ( /\ Handles("Removed", recordOk)
            /\ HandlerReturns )
          => Existing \in Range(stored') ]_vars

\* ------------------------------------------------------------------ C19
\* the New event at the head of the channel is no reconciliation: no source is
\* selected, or the selected source is available, or it differs from the new
\* sink input in raw index and name and either the applications differ or the
\* Jaro score of the names is at most 0.3
NoReconciliation ==
    /\ events # <<>>
    /\ Incoming # NoSink
    /\ \/ selected = None
       \/ heap[selected].available
       \/ /\ heap[selected].index # Incoming.index
          /\ heap[selected].name # Incoming.name
          /\ \/ heap[selected].application # Incoming.application
             \/ ~JaroAboveThreshold(heap[selected].name, Incoming.name)

\* C19: a New event that is no reconciliation appends exactly one entry, made
\* from the new sink input, to the catalog; every entry that was in the
\* catalog and the selected source keep all their fields, and the only entries
\* that leave are dead ones.
C19_NewInserts ==
    [][ \A recordOk \in BOOLEAN :
          ( /\ Handles("New", recordOk)
            /\ NoReconciliation )
          => /\ Len(heap') = Len(heap) + 1
             /\ heap'[Len(heap')] = SourceFrom(Incoming, now)
             /\ stored' # <<>>
             /\ stored'[Len(stored')] = Len(heap')
             /\ \A k \in 1..(Len(stored') - 1) :
                   /\ stored'[k] \in Range(stored)
                   /\ heap'[stored'[k]] = heap[stored'[k]]
             /\ \A x \in Range(stored) \ Range(stored') : IsDead(heap[x], now)
             /\ selected # None => heap'[selected] = heap[selected] ]_vars

\* a New event has just inserted a sink input of the application of the
\* unavailable selected source, under a name whose Jaro score is at most 0.3
C19_Witness ==
    /\ last.op = "New"
    /\ ~last.reconciled
    /\ selected # None
    /\ ~heap[selected].available
    /\ selected \in Range(stored)
    /\ stored[Len(stored)] # selected
    /\ LET new == heap[stored[Len(stored)]]
       IN /\ new.available
          /\ new.age = now
          /\ new.application = heap[selected].application
          /\ new.index # heap[selected].index
          /\ new.name # heap[selected].name
          /\ ~JaroAboveThreshold(heap[selected].name, new.name)

\* ------------------------------------------------------------------ C20
\* the entry the Changed event at the head of the channel is about carries
\* the enumerated name, volume and sink input afterwards, is available and has
\* its age reset
ChangedEntryUpdated ==
    /\ Existing \in Range(stored')
    /\ heap'[Existing].name = Incoming.name
    /\ heap'[Existing].volume = Incoming.volume
    /\ heap'[Existing].index = Incoming.index
    /\ heap'[Existing].application = heap[Existing].application
    /\ heap'[Existing].available
    /\ heap'[Existing].age = now

\* C20 as stated: a handled Changed event updates the entry with that raw
\* index and leaves every other entry and the size of the catalog as they were.
C20_ChangedFrame ==
    [][ \A recordOk \in BOOLEAN :
          ( /\ Handles("Changed", recordOk)
            /\ HandlerReturns )
          => /\ ChangedEntryUpdated
             /\ stored' = stored
             /\ \A x \in Range(stored) \ {Existing} : heap'[x] = heap[x] ]_vars

\* C20, amended: a handled Changed event updates the first entry with that
\* raw index; of the other entries, those that are dead when the event is
\* handled leave the catalog, and the rest stay, in order and with all their
\* fields.
C20_ChangedFrameButDead ==
    [][ \A recordOk \in BOOLEAN :
          ( /\ Handles("Changed", recordOk)
            /\ HandlerReturns )
          => /\ ChangedEntryUpdated
             /\ \A x \in Range(stored) \ {Existing} :
                   IF IsDead(heap[x], now)
                   THEN x \notin Range(stored')
                   ELSE x \in Range(stored') /\ heap'[x] = heap[x]
             /\ \A j \in 1..Len(stored'), k \in 1..Len(stored') :
                   j < k => \E m \in 1..Len(stored), n \in 1..Len(stored) :
                               /\ m < n
                               /\ stored[m] = stored'[j]
                               /\ stored[n] = stored'[k] ]_vars

\* a Changed event has just been handled at a time when the other Source,
\* still selected, was dead: the changed Source is the whole catalog
C20_Witness ==
    /\ last.op = "Changed"
    /\ eventThread = "running"
    /\ Len(stored) = 1
    /\ heap[stored[1]].available
    /\ heap[stored[1]].age = now
    /\ heap[stored[1]].name = host[heap[stored[1]].index].name
    /\ selected # None
    /\ selected \notin Range(stored)
    /\ IsDead(heap[selected], now)

\* ------------------------------------------------------------------------
\* C21: sources() returns the catalog ordered most-recently-active first:
\* for any two entries of the returned list the entry that comes earlier has
\* an age (time of its last activity) at least as recent as the later one.
C21_MostRecentFirst ==
    constructed =>
        \A j \in 1..Len(Sources) : \A k \in 1..Len(Sources) :
            j < k => heap[Sources[j]].age >= heap[Sources[k]].age

\* ------------------------------------------------------------------------
\* C22: once a channel of the meter has seen a peak, every call of process
\* that is fed only silent samples leaves the channel's value less than or
\* equal to the value after the previous call, not below 0 and not above
\* the last peak.
C22_SilenceDecays ==
    [][\A buf \in Chunks : \A c \in {"left", "right"} :
           (Silent(buf) /\ peak[c] > 0 /\ Process(buf)) =>
               /\ meter'[c].current_value <= meter[c].current_value
               /\ meter'[c].current_value >= 0
               /\ meter'[c].current_value <= peak[c]]_vars

\* the two bounds of C22 do hold: under silence the value of a channel stays
\* between 0 and the last peak
C22_SilenceBounded ==
    [][\A buf \in Chunks : \A c \in {"left", "right"} :
           (Silent(buf) /\ peak[c] > 0 /\ Process(buf)) =>
               /\ meter'[c].current_value >= 0
               /\ meter'[c].current_value <= peak[c]]_vars

\* ------------------------------------------------------------------------
\* the candidates a display name is chosen from: the strings of the metadata
\* that score above 1, without the browser's own name when one of them names
\* a browser
Eligible(metadata) ==
    LET scored == { k \in 1..Len(metadata) :
                        calculate_name_quality(metadata[k]) > 1 }
        browsers == { k \in scored : BrowserKindParse(metadata[k]) # "None" }
    IN IF browsers = {} THEN scored ELSE scored \ browsers

Placeholders ==
    { <<"Unidentifiable audio source">>,
      <<"Unidentifiable ">> \o FIREFOX \o <<" Tab">>,
      <<"Unidentifiable ">> \o CHROME \o <<" Tab">> }

HighestOf(metadata, among, name) ==
    \E k \in among :
        /\ name = metadata[k]
        /\ \A j \in among :
               calculate_name_quality(metadata[j])
                   <= calculate_name_quality(metadata[k])

\* C23 as stated: a string scores +1 when it is double-case, +1 for each word
\* that is not vague and -1 for each vague word, and whenever the metadata
\* holds at least one candidate the display name is a candidate with the
\* highest score.
C23_HighestCandidate ==
    naming.op = "from" =>
        HighestOf(naming.metadata, 1..Len(naming.metadata), naming.name)

\* C23, amended: the scores are as stated (playStream -1, ALSA Playback 0,
\* vlc 1, Firefox 2, Cool Song 3, My Cool Song 4); only the strings that
\* score above 1 are candidates, and when one of them names a browser the
\* browser's own name is left aside; the display name is a remaining
\* candidate with the highest score, or a placeholder when none remains.  For
\* playStream, Firefox and My Cool Song in any order the name is never
\* playStream.
C23_HighestEligible ==
    /\ calculate_name_quality(PlayStream) = 0 - 1
    /\ calculate_name_quality(AlsaPlayback) = 0
    /\ calculate_name_quality(Vlc) = 1
    /\ calculate_name_quality(FIREFOX) = 2
    /\ calculate_name_quality(CoolSong) = 3
    /\ calculate_name_quality(MyCoolSong) = 4
    /\ naming.op = "from" =>
        /\ IF Eligible(naming.metadata) = {}
           THEN naming.name \in Placeholders
           ELSE HighestOf(naming.metadata, Eligible(naming.metadata),
                          naming.name)
        /\ Range(naming.metadata) = {PlayStream, FIREFOX, MyCoolSong}
               => naming.name # PlayStream

\* the three candidates of the example were converted, playStream first, and
\* the name is My Cool Song
C23_Witness ==
    /\ naming.op = "from"
    /\ naming.metadata = <<PlayStream, FIREFOX, MyCoolSong>>
    /\ naming.name = MyCoolSong

\* ------------------------------------------------------------------------
\* C24: the status of a capture stream goes from Idle to Connecting to
\* Connected, may alternate between Connected and Suspended, and Terminated
\* and Failed are terminal: the status a reader sees leaves a terminal status
\* only when select or the event thread has put a new stream, or none, into
\* the slot, and the new stream starts at Idle.
C24_StatusMachine ==
    [][/\ (stream # NoStream /\ stream' # stream /\ last'.op = "status") =>
              \/ stream.status = "Idle" /\ stream'.status = "Connecting"
              \/ stream.status = "Connecting" /\ stream'.status = "Connected"
              \/ stream.status = "Connected" /\ stream'.status = "Suspended"
              \/ stream.status = "Suspended" /\ stream'.status = "Connected"
              \/ stream.status \notin Terminal /\ stream'.status \in Terminal
       /\ (Status \in Terminal /\ Status' # Status) =>
              /\ Status' = "Idle"
              /\ last'.op # "status"
              /\ last'.record = "ok" \/ stream' = NoStream]_vars

\* the host has reported that the stream of the current source was suspended
\* and then terminated
C24_Witness ==
    /\ stream # NoStream
    /\ stream.status = "Terminated"
    /\ last.op = "status"
    /\ current # None

\* ------------------------------------------------------------------------
\* C25: when the capture stream fails with Timeout the current source is no
\* longer reported, the selected source is kept, and the failure is visible
\* as the status Failed(Timeout).
C25_TimeoutDropsCurrent ==
    [][(last'.op = "status" /\ stream' # stream
            /\ stream'.status = "Failed(Timeout)") =>
           /\ CurrentSource' = None
           /\ selected' = selected
           /\ Status' = "Failed(Timeout)"]_vars

\* ------------------------------------------------------------------------
\* C26: no deadlock.  Under every interleaving of the event thread, the app
\* thread that calls AudioSystem::select, the consumer of the ring and the
\* getters of the interface, a call that has started eventually returns (or
\* ends by the panic of its thread), provided the threads are scheduled and
\* the calls into the host return.
InCall(t) == pc[t] \notin {"spawn", "recv", "idle", "panicked"}

C26_EveryCallReturns ==
    /\ InCall("events") ~> ~InCall("events")
    /\ InCall("app") ~> ~InCall("app")
    /\ InCall("ui") ~> ~InCall("ui")

\* sources() waits for the catalog, which the event thread holds while it
\* waits for the selected source in the New arm, and select is under way
C26_Witness ==
    /\ pc["ui"] = "sources"
    /\ locks["stored_sources"] = "events"
    /\ locks["producer"] = "events"
    /\ pc["events"] = "read_selected"
    /\ pc["app"] = "set_selected"

\* ------------------------------------------------------------------------
\* C27: when a handled SinkInput event leaves the index that current_source()
\* reports unchanged, the capture stream that is open stays in place: no new
\* stream is recorded and the slot is not touched.
C27_StreamLeftInPlace ==
    [][ \A recordOk \in BOOLEAN :
          ( /\ events # <<>>
            /\ events' = Tail(events)
            /\ stream # NoStream
            /\ CurrentIndex' = CurrentIndex
            /\ HandleEvent(TRUE, recordOk) )
          => /\ last'.record = "none"
             /\ stream' = stream
             /\ eventThread' = "running" ]_vars

\* ------------------------------------------------------------------------
\* C28: at most one capture stream is open on the host at any moment: the
\* stream that refresh_stream replaces is torn down before the new one is
\* opened.
C28_AtMostOneLive == live <= 1

\* ------------------------------------------------------------------------
\* C29: once a select of the app thread and the handling of an event by the
\* event thread have both finished, the slot agrees with the selector: a
\* stream is open if and only if current_source() is Some, and it records the
\* index of that source.
BothFinished ==
    /\ pc["events"] = "recv"
    /\ pc["app"] = "idle"
    /\ eventThread = "running"
    /\ appThread = "running"

C29_SlotAgreesWithSelector ==
    BothFinished =>
        /\ stream # NoStream <=> CurrentSource # None
        /\ stream # NoStream => stream.index = CurrentIndex

\* ------------------------------------------------------------------------
\* C30: the catalog that sources() returns never holds two entries with the
\* same raw index.
C30_UniqueIndex ==
    \A j \in 1..Len(Sources) : \A k \in 1..Len(Sources) :
        j # k => heap[Sources[j]].index # heap[Sources[k]].index

\* ------------------------------------------------------------------------
\* C31: whenever current_source() reports a Source, that Source is an entry
\* of the catalog sources() is computed from (the Spotify filter aside).
C31_CurrentInCatalog == CurrentSource # None => CurrentSource \in Range(stored)

\* ------------------------------------------------------------------------
\* C32: when every Audio chunk is a whole number of stereo frames, the ring
\* buffer holds a whole number of stereo frames after any interleaving of
\* pushes (truncated ones included), reads and clears.
C32_WholeFramesHeld == Len(ring) % (SAMPLE_IN_BYTES * 2) = 0

\* every chunk was handled, the ring is full, bytes of a chunk were dropped by
\* a push that did not fit, and the voice client has read
C32_Witness ==
    /\ events = <<>>
    /\ Len(ring) = BUFFER_SIZE
    /\ pushed < produced
    /\ delivery.op = "read"
    /\ delivery.n > 0

\* ------------------------------------------------------------------------
\* C33: the byte count AudioStream::read returns is the number of bytes it
\* took out of the ring buffer: 0 when the ring is empty, and never more than
\* the ring held.
C33_CountIsDequeued ==
    delivery.op \in {"read", "read failed"} => delivery.n = Len(delivery.data)

\* ------------------------------------------------------------------------
\* C34: the analysis tick never computes a range that underflows or leaves
\* the buffer, and what it drains is a whole number of samples, so the first
\* byte left in the buffer is always the first byte of a sample.
C34_TicksStayAligned ==
    /\ analysisThread = "running"
    /\ meter_buffer # <<>> => meter_buffer[1] % SAMPLE_IN_BYTES = 0

\* C35: bot_unwrapped is never called while no bot is set: under every
\* interleaving of connect and disconnect on the app thread with the events
\* the discord-events thread handles, its expect never fires.
C35_BotIsSetWhenUnwrapped == DEvents.pc # "panicked in bot_unwrapped"

\* C36: whenever a bot leaves the voice channel it was connected to, it
\* emits BotEvent::Left: the step that empties connected_to_channel appends
\* Left to the events of that bot.
C36_LeavingEmitsLeft ==
    [][\A b \in Bots :
          (bots[b].connected_to_channel /\ ~bots'[b].connected_to_channel)
              => /\ Len(bots'[b].queue) = Len(bots[b].queue) + 1
                 /\ bots'[b].queue[Len(bots'[b].queue)].kind = "Left"]_vars

\* the discord-events thread has not panicked
DiscordEventsAlive ==
    DEvents.pc \in { "loop", "poll", "handle" }

\* C37: after disconnect() and connect() with a new bot, the discord-events
\* thread comes to handle the events of the new bot: once the new bot is
\* ready the state becomes Connected, unless the bot is taken away again.
C37_NewBotIsHandled ==
    \A b \in Bots \ {1} :
        (bot = b /\ bots[b].context /\ DiscordEventsAlive)
            ~> (state.kind = "Connected" \/ bot # b \/ ~DiscordEventsAlive)

\* the available sources restore may return: those that score above the
\* minimum against the target
Restorable(sources, target) ==
    { k \in Candidates(sources) :
          Greater(Score(SourceCompare(sources[k], target)), MINIMUM_RESTORE_SCORE) }

\* C38: restore(target) returns, among the available sources that score
\* above MINIMUM_RESTORE_SCORE against the target, one with the highest score
\* (an Exact match before a Partial one), and None when there is none.
C38_RestoresTheBestMatch ==
    restoring.op = "restore" =>
        LET sources == restoring.sources
            target == restoring.target
            restorable == Restorable(sources, target)
        IN IF restorable = {} THEN restoring.restored = None
           ELSE /\ restoring.restored \in restorable
                /\ \A k \in restorable :
                      ~Greater(Score(SourceCompare(sources[k], target)),
                               Score(SourceCompare(sources[restoring.restored],
                                             target)))

\* C39: Enter on the hovered source of the dashboard list dispatches
\* StopStream (the app selects None) exactly when the hovered source is the
\* one being captured, and SetAudioSource for the hovered source otherwise,
\* also when nothing is captured.
C39_StopOnlyTheCaptured ==
    [][\A selected_index \in Indices, recordOk \in BOOLEAN :
          DashboardSelect(selected_index, recordOk)
              => LET source == Sources[selected_index + 1]
                 IN IF CurrentSource = source
                    THEN last'.arg = None
                    ELSE last'.arg = source]_vars

====
